---------------------------- MODULE Spec2Model ----------------------------
(***************************************************************************)
(* quickmp: matrix-profile kernels (CPU backend), the backend facade, the  *)
(* Python binding layer, and the host side of the VE backend (device       *)
(* table, memory pool, streams) with two calling threads.                  *)
(*                                                                         *)
(* Numbers.  Series hold small integers.  A double is modelled exactly as  *)
(* a record [k, num, rad]:                                                 *)
(*   k = "fin"    the real  num / sqrt(rad)   (rad >= 1)                   *)
(*   k = "nan" | "pinf" | "ninf"   the IEEE-754 special values             *)
(*   k = "uninit" a cell of a buffer nothing has written yet               *)
(*   k = "sqrt"   sqrt(num)                     (raw finalization)         *)
(*   k = "zdist"  sqrt(2m(1 - (num/sqrt(rad))/m)) (z-normalized final.)    *)
(* Arithmetic on "fin" values is exact (rounding is not modelled); the     *)
(* special values follow IEEE-754.                                         *)
(***************************************************************************)
EXTENDS Integers, Sequences, FiniteSets, Bags, TLC

\* ------------------------------------------------------------ bounds
\* longest series handed to a self-join / sliding_dot_product / mean_std
MaxN == 8
\* longest series handed to an ab-join
MaxNab == 4
\* most VE devices a host has
MaxDev == 2
\* size_t is modelled with SizeBits bits (64 in the source)
SizeBits == 8
\* smallest window the callers use (spec: m >= 3)
MinM == 3
\* sizeof(double)
SizeofDouble == 8

TVals == {0, 1}
SizeMod == 2 ^ SizeBits

\* ------------------------------------------------------------ doubles
Fin(n, r) == [k |-> "fin", num |-> n, rad |-> r]
NaN == [k |-> "nan", num |-> 0, rad |-> 1]
PInf == [k |-> "pinf", num |-> 0, rad |-> 1]
NInf == [k |-> "ninf", num |-> 0, rad |-> 1]
Uninit == [k |-> "uninit", num |-> 0, rad |-> 1]
Zero == Fin(0, 1)

Abs(x) == IF x < 0 THEN -x ELSE x

\* num/sqrt(rad) with the common square factor divided out
Norm(n, r) ==
    IF n = 0 THEN Fin(0, 1)
    ELSE LET ks == {k \in 1..Abs(n) : n % k = 0 /\ r % (k * k) = 0}
             g == CHOOSE k \in ks : \A k2 \in ks : k2 <= k
         IN Fin(n \div g, r \div (g * g))

\* a.num/sqrt(a.rad) < b.num/sqrt(b.rad), both finite
FinLess(a, b) ==
    IF a.num < 0 /\ b.num >= 0 THEN TRUE
    ELSE IF a.num >= 0 /\ b.num < 0 THEN FALSE
    ELSE IF a.num >= 0 THEN a.num * a.num * b.rad < b.num * b.num * a.rad
    ELSE a.num * a.num * b.rad > b.num * b.num * a.rad

\* IEEE-754 operator< : false as soon as one side is NaN
Less(a, b) ==
    IF a.k = "nan" \/ b.k = "nan" THEN FALSE
    ELSE IF a.k = "pinf" THEN FALSE
    ELSE IF b.k = "ninf" THEN FALSE
    ELSE IF a.k = "ninf" THEN TRUE
    ELSE IF b.k = "pinf" THEN TRUE
    ELSE FinLess(a, b)

\* the new score stored without a comparison
StdMax_Overwrite(a, b) == b
\* std::max(a, b) == (a < b) ? b : a
StdMax(a, b) == IF Less(a, b) THEN b ELSE a
\* std::min(a, b) == (b < a) ? b : a
StdMin(a, b) == IF Less(b, a) THEN b ELSE a

\* the same real number (or the same special value)
EqD(a, b) ==
    IF a.k = "fin" /\ b.k = "fin" THEN ~FinLess(a, b) /\ ~FinLess(b, a)
    ELSE a.k = b.k /\ a.k # "nan" /\ a.k # "uninit"

IsFinite(a) == a.k \in {"fin", "sqrt", "zdist"}

\* a * b for a positive factor b (a finite positive value or +inf)
MulPos(a, b) ==
    IF a.k = "nan" THEN NaN
    ELSE IF a.k \in {"pinf", "ninf"} THEN a
    ELSE IF b.k = "pinf"
         THEN (IF a.num = 0 THEN NaN ELSE IF a.num > 0 THEN PInf ELSE NInf)
    ELSE Norm(a.num * b.num, a.rad * b.rad)

\* 1.0 / sigma for sigma = sqrt(v)/m >= 0 : +inf when sigma is 0
Recip(v, m) == IF v = 0 THEN PInf ELSE Norm(m, v)

\* std::sqrt of a squared distance
Sqrt(a) ==
    IF a.k = "nan" \/ a.k = "ninf" THEN NaN
    ELSE IF a.k = "pinf" THEN PInf
    ELSE IF a.num < 0 THEN NaN
    ELSE [k |-> "sqrt", num |-> a.num, rad |-> a.rad]

\* std::sqrt(2.0 * m * (1.0 - p / m))
ZDist(p, m) ==
    IF p.k = "nan" THEN NaN
    ELSE IF p.k = "pinf" THEN NaN
    ELSE IF p.k = "ninf" THEN PInf
    ELSE IF FinLess(Fin(m, 1), p) THEN NaN
    ELSE [k |-> "zdist", num |-> p.num, rad |-> p.rad]

\* ------------------------------------------------------------ size_t
\* n - m + 1 evaluated in size_t
SubCount(n, m) == (n - m + 1) % SizeMod
\* new double[k] throws when k * sizeof(double) does not fit
AllocFails(k) == k * SizeofDouble >= SizeMod
\* the exclusion zone rounded down instead of up
ExclZone_Floor(m) == m \div 4
\* the exclusion zone one window wider
ExclZone_Wide(m) == (m + 3) \div 4 + 1
\* std::ceil(m / 4.0)
ExclZone(m) == (m + 3) \div 4

\* ------------------------------------------------------------ series
Series(n) == [0..(n - 1) -> TVals]
Empty == [x \in {} |-> 0]

RECURSIVE SumTo(_, _, _)
\* f(lo) + ... + f(hi) for a function f
SumTo(f, lo, hi) == IF lo > hi THEN 0 ELSE f[lo] + SumTo(f, lo + 1, hi)

\* sum_{k<m} A[a+k] * B[b+k]
Dot(A, a, B, b, m) == SumTo([k \in 0..(m - 1) |-> A[a + k] * B[b + k]], 0, m - 1)

\* QT[i] = sum_j Q[j] * T[i + j], i < n - m + 1 (Q is read from offset q0)
sliding_dot_product_naive(T, Q, q0, n, m) ==
    [i \in 0..(n - m) |-> Dot(Q, q0, T, i, m)]

\* The FFT path: circular convolution of length 2n of the zero-padded T
\* with the reversed, zero-padded Q, read at indices m-1 .. n-1.
sliding_dot_product_fft(T, Q, n, m) ==
    LET N2 == 2 * n
        Ta == [i \in 0..(N2 - 1) |-> IF i < n THEN T[i] ELSE 0]
        Qra == [i \in 0..(N2 - 1) |-> IF i < m THEN Q[m - i - 1] ELSE 0]
        conv == [i \in 0..(N2 - 1) |->
                   SumTo([k \in 0..(N2 - 1) |-> Qra[k] * Ta[(i - k) % N2]], 0, N2 - 1)]
    IN [p \in 0..(n - m) |-> conv[p + m - 1]]

\* mean and standard deviation of every window.  mu[i] is held as
\* m * mu[i] (the window sum) and sigma[i] as m^2 * sigma[i]^2
\* (m * sum of squares - sum^2 >= 0), so that both stay integers.
compute_mean_std(T, n, m) ==
    [mu |-> [i \in 0..(n - m) |-> SumTo([k \in 0..(m - 1) |-> T[i + k]], 0, m - 1)],
     sigma |-> [i \in 0..(n - m) |->
                  LET s == SumTo([k \in 0..(m - 1) |-> T[i + k]], 0, m - 1)
                      q == SumTo([k \in 0..(m - 1) |-> T[i + k] * T[i + k]], 0, m - 1)
                  IN m * q - s * s]]

\* S[i] = sum_k T[i+k]^2
compute_squared_sum(T, n, m) ==
    [i \in 0..(n - m) |-> SumTo([k \in 0..(m - 1) |-> T[i + k] * T[i + k]], 0, m - 1)]


\* ------------------------------------------------------------ scoring
\* (q - m * mu_a * mu_b) * sigma_inv_a * sigma_inv_b, where sa = m * mu_a,
\* sb = m * mu_b, so that q - m*mu_a*mu_b = (m*q - sa*sb) / m
Corr(q, sa, sb, ia, ib, mm) ==
    MulPos(MulPos(Norm(mm * q - sa * sb, mm * mm), ia), ib)

\* the squared distance without the factor 2 of the cross term
SqDist_NoDouble(q, Sa, Sb) == Fin(Sa + Sb - q, 1)
\* S_a + S_b - 2.0 * q
SqDist(q, Sa, Sb) == Fin(Sa + Sb - 2 * q, 1)

\* the rolling update without the term that leaves the window
Roll_NoDrop(qprev, A, B, i, j, mm) == qprev + A[j + mm - 1] * B[i + mm - 1]
\* QT[j - 1] - A[j - 1] * B[i - 1] + A[j + m - 1] * B[i + m - 1]
Roll(qprev, A, B, i, j, mm) ==
    qprev - A[j - 1] * B[i - 1] + A[j + mm - 1] * B[i + mm - 1]

RECURSIVE FoldMax(_, _, _, _)
\* acc = std::max(acc, d[j]) for j = lo .. hi, in this order
FoldMax(acc, d, lo, hi) ==
    IF lo > hi THEN acc ELSE FoldMax(StdMax(acc, d[lo]), d, lo + 1, hi)

RECURSIVE FoldMin(_, _, _, _)
\* acc = std::min(acc, d[j]) for j = lo .. hi, in this order
FoldMin(acc, d, lo, hi) ==
    IF lo > hi THEN acc ELSE FoldMin(StdMin(acc, d[lo]), d, lo + 1, hi)

\* a cell of a dot-product row: its value and the outer iteration that wrote it
Cell(v, at) == [v |-> v, at |-> at]
Fresh(L) == [j \in 0..(L - 1) |-> Cell(0, -1)]
Buf(L) == [j \in 0..(L - 1) |-> Uninit]

\* ------------------------------------------------------------ state
VARIABLES
    backend,        \* "cpu" | "ve": the backend this build links
    hw_devices,     \* VE devices the host has (vedaDeviceGetCount)
    g_initialized,  \* cpu/backend.cpp: the backend's lifecycle flag
    veda_up,        \* VEDA is initialized (between vedaInit and vedaExit)
    g_devices,      \* ve/backend.cpp: the device contexts
    g_current_device,
    pc,             \* "idle" | "row" | "done": where the current call stands
    op,             \* the entry point that is running or has just returned
    err,            \* how the call ended: "none" while it runs
    T1, T2, m,      \* the inputs of the running kernel
    P,              \* the caller's output buffer
    QT, QT2,        \* the two dot-product rows (contents follow the pointers)
    ptr,            \* which allocation the pointers QT and QT2 hold
    mu1, mu2,       \* m * mean of every window of T1 / T2
    sigma_inv1, sigma_inv2,
    S1, S2,         \* squared sums (raw kernels)
    i,              \* the outer loop index
    heap,           \* scratch allocations that are live
    scored,         \* bag of the pairs <<i, j>> whose score was folded into P
    oob,            \* out-of-bounds accesses <<array, index>> of the call
    stale,          \* a dot-product cell was read that the previous row did not write
    device,         \* the argument of the running use_device call
    ve,             \* the locals of the running VE call (dev, stream, device pointers)
    py_loaded,      \* bindings.cpp: the extension module is loaded in the interpreter
    py_g_initialized, \* bindings.cpp:17: the binding layer's own g_initialized
    vmem,           \* VE device memory: the blocks vedaMemAlloc has handed out
    streams,        \* the work queued on every VEDA stream and not yet executed
    parked,         \* the call of the other thread, while this one runs
    tid             \* the thread that is running

vars == <<backend, hw_devices, g_initialized, veda_up, g_devices, g_current_device, pc, op, err, T1, T2, m, P, QT, QT2, ptr, mu1, mu2,
          sigma_inv1, sigma_inv2, S1, S2, i, heap, scored, oob, stale,
          device, ve, py_loaded, py_g_initialized, vmem, streams, parked, tid>>

\* the process-wide state of the backends and of the binding layer
lifecycle == <<backend, hw_devices, g_initialized, veda_up, g_devices, g_current_device,
               py_loaded, py_g_initialized, vmem, streams>>

\* the locals of the calls that are not CPU kernels
vecall == <<device, ve>>

\* the two threads
sched == <<parked, tid>>

kvars == <<T1, T2, m, P, QT, QT2, ptr, mu1, mu2, sigma_inv1, sigma_inv2,
           S1, S2, i, heap, scored, oob, stale>>

NoPtr == [QT |-> "none", QT2 |-> "none"]

KernelIdle ==
    /\ T1 = Empty /\ T2 = Empty /\ m = 0
    /\ P = Empty /\ QT = Empty /\ QT2 = Empty /\ ptr = NoPtr
    /\ mu1 = Empty /\ mu2 = Empty /\ sigma_inv1 = Empty /\ sigma_inv2 = Empty
    /\ S1 = Empty /\ S2 = Empty
    /\ i = 0 /\ heap = {} /\ scored = EmptyBag /\ oob = {} /\ stale = FALSE

\* no VE call is running
NoVe == [dev |-> -1, obj |-> -1, stream |-> 0, sizes |-> <<>>, nin |-> 0,
         ptrs |-> <<>>, k |-> 0]

\* a thread that is in no call
IdleFrame ==
    [pc |-> "idle", op |-> "none", err |-> "none",
     T1 |-> Empty, T2 |-> Empty, m |-> 0, P |-> Empty, QT |-> Empty, QT2 |-> Empty,
     ptr |-> NoPtr, mu1 |-> Empty, mu2 |-> Empty,
     sigma_inv1 |-> Empty, sigma_inv2 |-> Empty, S1 |-> Empty, S2 |-> Empty,
     i |-> 0, heap |-> {}, scored |-> EmptyBag, oob |-> {}, stale |-> FALSE,
     device |-> 0, ve |-> NoVe]

\* the streams a call can name
Streams == {0, 1}

\* a process that has made no call: one thread is about to run, the other
\* is in no call; no Python module is loaded
Init ==
    /\ backend \in {"cpu", "ve"}
    /\ hw_devices \in (IF backend = "ve" THEN 0..MaxDev ELSE {0})
    /\ g_initialized = FALSE
    /\ veda_up = FALSE
    /\ g_devices = <<>>
    /\ g_current_device = -1
    /\ pc = "idle" /\ op = "none" /\ err = "none"
    /\ KernelIdle
    /\ device = 0 /\ ve = NoVe
    /\ py_loaded = FALSE /\ py_g_initialized = FALSE
    /\ vmem = <<>> /\ streams = [s \in Streams |-> <<>>]
    /\ parked = IdleFrame /\ tid = 1

\* a call that ends at once: nothing of the kernel state is touched
Ends(o, e) ==
    /\ pc' = "done" /\ op' = o /\ err' = e
    /\ UNCHANGED <<kvars, vecall, sched>>

n1 == Cardinality(DOMAIN T1)
n2 == Cardinality(DOMAIN T2)
L1 == n1 - m + 1
L2 == n2 - m + 1


\* delete[] of the first block alone
Release_FirstOnly(h, blocks) ==
    [live |-> h \ {blocks[1]},
     bad |-> {blocks[1]} \ h]

\* delete[] of every block of `blocks`, in order, on the live allocations h:
\* what stays allocated, and the blocks deleted while not (or no longer) live
Release(h, blocks) ==
    [live |-> h \ {blocks[x] : x \in DOMAIN blocks},
     bad |-> {blocks[x] : x \in {y \in DOMAIN blocks :
                  blocks[y] \notin h \/ \E z \in 1..(y - 1) : blocks[z] = blocks[y]}}]

\* ------------------------------------------------------------ selfjoin
\* the scratch buffers selfjoin allocates (stomp.cpp:14-17)
SelfScratch == {"QT", "QT2", "mu", "sigma_inv"}
SelfEdScratch == {"QT", "QT2", "S"}

\* stomp.cpp:6-38 for n >= mm: statistics, the first row, the exclusion zone
\* and the reduction of the first row into P[0]
selfjoin_seed(T, n, mm) ==
    LET L == n - mm + 1
        E == ExclZone(mm)
        st == compute_mean_std(T, n, mm)
        sinv == [j \in 0..(L - 1) |-> Recip(st.sigma[j], mm)]
        qt == sliding_dot_product_naive(T, T, 0, n, mm)
        Pa == [j \in 0..(L - 1) |->
                 Corr(qt[j], st.mu[0], st.mu[j], sinv[0], sinv[j], mm)]
        Pb == [j \in 0..(L - 1) |-> IF j < E + 1 THEN Zero ELSE Pa[j]]
        Pc == [Pb EXCEPT ![0] = FoldMax(Pb[0], Pb, E + 1, L - 1)]
    IN /\ T1' = T /\ T2' = Empty /\ m' = mm
       /\ mu1' = st.mu /\ sigma_inv1' = sinv
       /\ mu2' = Empty /\ sigma_inv2' = Empty /\ S1' = Empty /\ S2' = Empty
       /\ QT' = [j \in 0..(L - 1) |-> Cell(qt[j], 0)]
       /\ QT2' = Fresh(L)
       /\ ptr' = [QT |-> "QT", QT2 |-> "QT2"]
       /\ heap' = SelfScratch
       /\ P' = Pc
       /\ oob' = {<<"P", j>> : j \in L..E}
       /\ scored' = SetToBag({<<0, j>> : j \in (E + 1)..(L - 1)})
       /\ stale' = FALSE
       /\ i' = 1
       /\ op' = "selfjoin" /\ err' = "none"
       /\ pc' = "row"

\* one iteration of the main loop, stomp.cpp:40-60
selfjoin_row ==
    /\ pc = "row" /\ op = "selfjoin" /\ i < L1
    /\ LET E == ExclZone(m)
           lo == i + E + 1
           hi == L1 - 1
           q2 == [j \in 0..hi |->
                    IF j >= lo
                    THEN Cell(Roll(QT[j - 1].v, T1, T1, i, j, m), i)
                    ELSE QT2[j]]
           d == [j \in lo..hi |->
                   Corr(q2[j].v, mu1[i], mu1[j], sigma_inv1[i], sigma_inv1[j], m)]
       IN /\ P' = [j \in 0..hi |->
                     IF j >= lo THEN StdMax(P[j], d[j])
                     ELSE IF j = i THEN FoldMax(P[i], d, lo, hi)
                     ELSE P[j]]
          /\ QT' = q2 /\ QT2' = QT
          /\ ptr' = [QT |-> ptr.QT2, QT2 |-> ptr.QT]
          /\ scored' = scored (+) SetToBag({<<i, j>> : j \in lo..hi})
          /\ stale' = (stale \/ \E j \in lo..hi : QT[j - 1].at # i - 1)
    /\ i' = i + 1
    /\ UNCHANGED <<lifecycle, vecall, sched, pc, op, err, T1, T2, m, mu1, mu2,
                   sigma_inv1, sigma_inv2, S1, S2, heap, oob>>

\* finalization and release of the scratch buffers, stomp.cpp:62-69
selfjoin_final ==
    /\ pc = "row" /\ op = "selfjoin" /\ i >= L1
    /\ P' = [j \in DOMAIN P |-> ZDist(P[j], m)]
    /\ heap' = Release(heap, <<ptr.QT, ptr.QT2, "mu", "sigma_inv">>).live
    /\ oob' = oob \cup {<<"delete[]", b>> : b \in Release(heap, <<ptr.QT, ptr.QT2, "mu", "sigma_inv">>).bad}
    /\ pc' = "done" /\ err' = "ok"
    /\ UNCHANGED <<lifecycle, vecall, sched, op, T1, T2, m, QT, QT2, ptr, mu1, mu2,
                   sigma_inv1, sigma_inv2, S1, S2, i, scored, stale>>

\* ------------------------------------------------------------ selfjoin_ed
\* stomp.cpp:138-167 for n >= mm
selfjoin_ed_seed(T, n, mm) ==
    LET L == n - mm + 1
        E == ExclZone(mm)
        S == compute_squared_sum(T, n, mm)
        qt == sliding_dot_product_naive(T, T, 0, n, mm)
        Pa == [j \in 0..(L - 1) |-> SqDist(qt[j], S[0], S[j])]
        Pb == [j \in 0..(L - 1) |-> IF j < E + 1 THEN PInf ELSE Pa[j]]
        Pc == [Pb EXCEPT ![0] = FoldMin(Pb[0], Pb, E + 1, L - 1)]
    IN /\ T1' = T /\ T2' = Empty /\ m' = mm
       /\ S1' = S
       /\ mu1' = Empty /\ sigma_inv1' = Empty
       /\ mu2' = Empty /\ sigma_inv2' = Empty /\ S2' = Empty
       /\ QT' = [j \in 0..(L - 1) |-> Cell(qt[j], 0)]
       /\ QT2' = Fresh(L)
       /\ ptr' = [QT |-> "QT", QT2 |-> "QT2"]
       /\ heap' = SelfEdScratch
       /\ P' = Pc
       /\ oob' = {<<"P", j>> : j \in L..E}
       /\ scored' = SetToBag({<<0, j>> : j \in (E + 1)..(L - 1)})
       /\ stale' = FALSE
       /\ i' = 1
       /\ op' = "selfjoin_ed" /\ err' = "none"
       /\ pc' = "row"

\* one iteration of the main loop, stomp.cpp:170-188
selfjoin_ed_row ==
    /\ pc = "row" /\ op = "selfjoin_ed" /\ i < L1
    /\ LET E == ExclZone(m)
           lo == i + E + 1
           hi == L1 - 1
           q2 == [j \in 0..hi |->
                    IF j >= lo
                    THEN Cell(Roll(QT[j - 1].v, T1, T1, i, j, m), i)
                    ELSE QT2[j]]
           d == [j \in lo..hi |-> SqDist(q2[j].v, S1[i], S1[j])]
       IN /\ P' = [j \in 0..hi |->
                     IF j >= lo THEN StdMin(P[j], d[j])
                     ELSE IF j = i THEN FoldMin(P[i], d, lo, hi)
                     ELSE P[j]]
          /\ QT' = q2 /\ QT2' = QT
          /\ ptr' = [QT |-> ptr.QT2, QT2 |-> ptr.QT]
          /\ scored' = scored (+) SetToBag({<<i, j>> : j \in lo..hi})
          /\ stale' = (stale \/ \E j \in lo..hi : QT[j - 1].at # i - 1)
    /\ i' = i + 1
    /\ UNCHANGED <<lifecycle, vecall, sched, pc, op, err, T1, T2, m, mu1, mu2,
                   sigma_inv1, sigma_inv2, S1, S2, heap, oob>>

\* conversion to distance and release, stomp.cpp:190-197
selfjoin_ed_final ==
    /\ pc = "row" /\ op = "selfjoin_ed" /\ i >= L1
    /\ P' = [j \in DOMAIN P |-> Sqrt(P[j])]
    /\ heap' = Release(heap, <<ptr.QT, ptr.QT2, "S">>).live
    /\ oob' = oob \cup {<<"delete[]", b>> : b \in Release(heap, <<ptr.QT, ptr.QT2, "S">>).bad}
    /\ pc' = "done" /\ err' = "ok"
    /\ UNCHANGED <<lifecycle, vecall, sched, op, T1, T2, m, QT, QT2, ptr, mu1, mu2,
                   sigma_inv1, sigma_inv2, S1, S2, i, scored, stale>>


\* ------------------------------------------------------------ abjoin
AbScratch == {"QT", "QT2", "mu1", "mu2", "sigma_inv1", "sigma_inv2"}
AbEdScratch == {"QT", "QT2", "S1", "S2"}

\* stomp.cpp:73-104 for n1 >= mm and n2 >= mm: statistics and the first row
abjoin_seed(A, B, na, nb, mm) ==
    LET La == na - mm + 1
        Lb == nb - mm + 1
        sa == compute_mean_std(A, na, mm)
        sb == compute_mean_std(B, nb, mm)
        ia == [j \in 0..(La - 1) |-> Recip(sa.sigma[j], mm)]
        ib == [j \in 0..(Lb - 1) |-> Recip(sb.sigma[j], mm)]
        qt == sliding_dot_product_naive(A, B, 0, na, mm)
    IN /\ T1' = A /\ T2' = B /\ m' = mm
       /\ mu1' = sa.mu /\ mu2' = sb.mu
       /\ sigma_inv1' = ia /\ sigma_inv2' = ib
       /\ S1' = Empty /\ S2' = Empty
       /\ QT' = [j \in 0..(La - 1) |-> Cell(qt[j], 0)]
       /\ QT2' = Fresh(La)
       /\ ptr' = [QT |-> "QT", QT2 |-> "QT2"]
       /\ heap' = AbScratch
       /\ P' = [j \in 0..(La - 1) |->
                  Corr(qt[j], sa.mu[j], sb.mu[0], ia[j], ib[0], mm)]
       /\ oob' = {}
       /\ scored' = SetToBag({<<0, j>> : j \in 0..(La - 1)})
       /\ stale' = FALSE
       /\ i' = 1
       /\ op' = "abjoin" /\ err' = "none"
       /\ pc' = "row"

\* one iteration of the main loop, stomp.cpp:106-123
abjoin_row ==
    /\ pc = "row" /\ op = "abjoin" /\ i < L2
    /\ LET hi == L1 - 1
           left == sliding_dot_product_naive(T1, T2, i, m, m)
           q2 == [j \in 0..hi |->
                    IF j = 0 THEN Cell(left[0], i)
                    ELSE Cell(Roll(QT[j - 1].v, T1, T2, i, j, m), i)]
           d == [j \in 0..hi |->
                   Corr(q2[j].v, mu1[j], mu2[i], sigma_inv1[j], sigma_inv2[i], m)]
       IN /\ P' = [j \in 0..hi |-> StdMax(P[j], d[j])]
          /\ QT' = q2 /\ QT2' = QT
          /\ ptr' = [QT |-> ptr.QT2, QT2 |-> ptr.QT]
          /\ scored' = scored (+) SetToBag({<<i, j>> : j \in 0..hi})
          /\ stale' = (stale \/ \E j \in 1..hi : QT[j - 1].at # i - 1)
    /\ i' = i + 1
    /\ UNCHANGED <<lifecycle, vecall, sched, pc, op, err, T1, T2, m, mu1, mu2,
                   sigma_inv1, sigma_inv2, S1, S2, heap, oob>>

\* finalization and release, stomp.cpp:125-134
abjoin_final ==
    /\ pc = "row" /\ op = "abjoin" /\ i >= L2
    /\ P' = [j \in DOMAIN P |-> ZDist(P[j], m)]
    /\ heap' = Release(heap, <<ptr.QT, ptr.QT2, "mu1", "mu2", "sigma_inv1", "sigma_inv2">>).live
    /\ oob' = oob \cup {<<"delete[]", b>> : b \in Release(heap, <<ptr.QT, ptr.QT2, "mu1", "mu2", "sigma_inv1", "sigma_inv2">>).bad}
    /\ pc' = "done" /\ err' = "ok"
    /\ UNCHANGED <<lifecycle, vecall, sched, op, T1, T2, m, QT, QT2, ptr, mu1, mu2,
                   sigma_inv1, sigma_inv2, S1, S2, i, scored, stale>>

\* ------------------------------------------------------------ abjoin_ed
\* stomp.cpp:202-223 for n1 >= mm and n2 >= mm
abjoin_ed_seed(A, B, na, nb, mm) ==
    LET La == na - mm + 1
        Sa == compute_squared_sum(A, na, mm)
        Sb == compute_squared_sum(B, nb, mm)
        qt == sliding_dot_product_naive(A, B, 0, na, mm)
    IN /\ T1' = A /\ T2' = B /\ m' = mm
       /\ S1' = Sa /\ S2' = Sb
       /\ mu1' = Empty /\ mu2' = Empty
       /\ sigma_inv1' = Empty /\ sigma_inv2' = Empty
       /\ QT' = [j \in 0..(La - 1) |-> Cell(qt[j], 0)]
       /\ QT2' = Fresh(La)
       /\ ptr' = [QT |-> "QT", QT2 |-> "QT2"]
       /\ heap' = AbEdScratch
       /\ P' = [j \in 0..(La - 1) |-> SqDist(qt[j], Sa[j], Sb[0])]
       /\ oob' = {}
       /\ scored' = SetToBag({<<0, j>> : j \in 0..(La - 1)})
       /\ stale' = FALSE
       /\ i' = 1
       /\ op' = "abjoin_ed" /\ err' = "none"
       /\ pc' = "row"

\* one iteration of the main loop, stomp.cpp:225-243
abjoin_ed_row ==
    /\ pc = "row" /\ op = "abjoin_ed" /\ i < L2
    /\ LET hi == L1 - 1
           left == sliding_dot_product_naive(T1, T2, i, m, m)
           q2 == [j \in 0..hi |->
                    IF j = 0 THEN Cell(left[0], i)
                    ELSE Cell(Roll(QT[j - 1].v, T1, T2, i, j, m), i)]
           d == [j \in 0..hi |-> SqDist(q2[j].v, S1[j], S2[i])]
       IN /\ P' = [j \in 0..hi |-> StdMin(P[j], d[j])]
          /\ QT' = q2 /\ QT2' = QT
          /\ ptr' = [QT |-> ptr.QT2, QT2 |-> ptr.QT]
          /\ scored' = scored (+) SetToBag({<<i, j>> : j \in 0..hi})
          /\ stale' = (stale \/ \E j \in 1..hi : QT[j - 1].at # i - 1)
    /\ i' = i + 1
    /\ UNCHANGED <<lifecycle, vecall, sched, pc, op, err, T1, T2, m, mu1, mu2,
                   sigma_inv1, sigma_inv2, S1, S2, heap, oob>>

\* conversion to distance and release, stomp.cpp:245-253
abjoin_ed_final ==
    /\ pc = "row" /\ op = "abjoin_ed" /\ i >= L2
    /\ P' = [j \in DOMAIN P |-> Sqrt(P[j])]
    /\ heap' = Release(heap, <<ptr.QT, ptr.QT2, "S1", "S2">>).live
    /\ oob' = oob \cup {<<"delete[]", b>> : b \in Release(heap, <<ptr.QT, ptr.QT2, "S1", "S2">>).bad}
    /\ pc' = "done" /\ err' = "ok"
    /\ UNCHANGED <<lifecycle, vecall, sched, op, T1, T2, m, QT, QT2, ptr, mu1, mu2,
                   sigma_inv1, sigma_inv2, S1, S2, i, scored, stale>>


\* ------------------------------------------------------------ VE memory pool
\* ve/backend.cpp:76-78: free_blocks_ (size -> the free pointers of that
\* size) and allocated_sizes_ (pointer -> its size) of a pool nobody used
EmptyPool == [free_blocks_ |-> <<>>, allocated_sizes_ |-> <<>>]

\* free_blocks_[size] of std::map: the vector stored, or a new empty one
FreeList(pool, size) ==
    IF size \in DOMAIN pool.free_blocks_ THEN pool.free_blocks_[size] ELSE <<>>

\* vedaMemAlloc: a device pointer that is not allocated.  Pointers are named
\* by the size asked for and a serial number.
FreshPtr(mem, size) ==
    LET used == {p \in DOMAIN mem : p[1] = size}
    IN <<size, CHOOSE x \in 1..(Cardinality(used) + 1) :
                  /\ <<size, x>> \notin used
                  /\ \A y \in 1..(x - 1) : <<size, y>> \in used>>

\* alloc that returns the last free block and leaves it on the free list
alloc_NoPop(pool, size, mem) ==
    LET fl == FreeList(pool, size)
    IN IF fl # <<>>
       THEN [ptr |-> fl[Len(fl)], fresh |-> FALSE, pool |-> pool]
       ELSE [ptr |-> FreshPtr(mem, size), fresh |-> TRUE,
             pool |-> [free_blocks_ |-> (size :> <<>>) @@ pool.free_blocks_,
                       allocated_sizes_ |->
                           (FreshPtr(mem, size) :> size) @@ pool.allocated_sizes_]]

\* MemoryPool::alloc (ve/backend.cpp:44-56), run under the pool's mutex: the
\* pointer returned, whether vedaMemAlloc produced it, and the pool afterwards
alloc(pool, size, mem) ==
    LET fl == FreeList(pool, size)
    IN IF fl # <<>>
       THEN [ptr |-> fl[Len(fl)], fresh |-> FALSE,
             pool |-> [pool EXCEPT !.free_blocks_ =
                          (size :> SubSeq(fl, 1, Len(fl) - 1)) @@ pool.free_blocks_]]
       ELSE [ptr |-> FreshPtr(mem, size), fresh |-> TRUE,
             pool |-> [free_blocks_ |-> (size :> <<>>) @@ pool.free_blocks_,
                       allocated_sizes_ |->
                           (FreshPtr(mem, size) :> size) @@ pool.allocated_sizes_]]

\* MemoryPool::free (ve/backend.cpp:58-62), run under the pool's mutex.
\* allocated_sizes_[ptr] of std::map inserts size 0 for an unknown pointer.
free(pool, p) ==
    LET size == IF p \in DOMAIN pool.allocated_sizes_
                THEN pool.allocated_sizes_[p] ELSE 0
    IN [free_blocks_ |-> (size :> Append(FreeList(pool, size), p)) @@ pool.free_blocks_,
        allocated_sizes_ |-> (p :> size) @@ pool.allocated_sizes_]

\* ------------------------------------------------------------ VE kernel calls
\* what the host buffer b of the call of thread t holds
HostData(t, b) == [by |-> t, buf |-> b]

\* what output o of device function f holds when its inputs held args
Result(f, args, o) == [f |-> f, args |-> args, out |-> o]

\* the work of stream s with one more operation queued
Enqueue(s, w) == [streams EXCEPT ![s] = Append(@, w)]

\* ve/backend.cpp:235-236 (and 178, 207, 262, 293): current_device() and
\* the locals of the call; sizes are the byte counts of the device buffers
\* in the order they are allocated, the first nin of them inputs
ve_call(o, sizes, nin, s) ==
    /\ pc = "idle" /\ backend = "ve"
    /\ IF g_current_device < 0 \/ g_current_device >= Len(g_devices)
       THEN /\ Ends(o, "NotInitialized")
            /\ UNCHANGED lifecycle
       ELSE /\ pc' = (IF sizes = <<>> THEN "ve_launch" ELSE "ve_alloc")
            /\ op' = o /\ err' = "none"
            /\ ve' = [dev |-> g_current_device,
                      obj |-> g_devices[g_current_device + 1].obj,
                      stream |-> s, sizes |-> sizes,
                      nin |-> nin, ptrs |-> <<>>, k |-> 0]
            /\ P' = [b \in 1..(Len(sizes) - nin) |-> "unwritten"]
            /\ UNCHANGED <<lifecycle, sched, device, T1, T2, m, QT, QT2, ptr, mu1, mu2,
                           sigma_inv1, sigma_inv2, S1, S2, i, heap, scored, oob, stale>>

\* the frame variables a step of a VE call leaves alone
veframe == <<op, device, T1, T2, m, QT, QT2, ptr, mu1, mu2,
             sigma_inv1, sigma_inv2, S1, S2, i, heap, scored, oob, stale>>

\* the DeviceContext the reference `dev` of the running call was bound to
\* (ve/backend.cpp:235) is still an element of g_devices
LiveDev ==
    /\ ve.dev + 1 \in DOMAIN g_devices
    /\ g_devices[ve.dev + 1].obj = ve.obj

\* the pcs that follow an alloc, a copy to the device, a launch, a copy
\* back, a synchronize and a free of the running call
AfterAlloc == IF Len(ve.ptrs) + 1 = Len(ve.sizes) THEN "ve_h2d" ELSE "ve_alloc"
AfterH2d == IF ve.k + 1 = ve.nin THEN "ve_launch" ELSE "ve_h2d"
AfterLaunch == IF Len(ve.ptrs) > ve.nin THEN "ve_d2h" ELSE "ve_sync"
AfterD2h == IF ve.nin + ve.k + 1 = Len(ve.ptrs) THEN "ve_sync" ELSE "ve_d2h"
AfterSync == IF ve.ptrs = <<>> THEN "done" ELSE "ve_free"
AfterFree == IF ve.k + 1 = Len(ve.ptrs) THEN "done" ELSE "ve_free"

\* one dev.pool.alloc(...) of the call (ve/backend.cpp:238-239).  When
\* finalize has destroyed the DeviceContext, `dev` dangles and the behaviour
\* is undefined: the process dies, or the call reads a free list out of the
\* freed object, finds nothing and goes to vedaMemAlloc (ve/backend.cpp:53),
\* which fails (VEDA_CHECK, exit) unless VEDA is up again.
ve_alloc ==
    /\ pc = "ve_alloc"
    /\ IF LiveDev
       THEN LET d == ve.dev + 1
                r == alloc(g_devices[d].pool, ve.sizes[Len(ve.ptrs) + 1], vmem)
            IN /\ g_devices' = [g_devices EXCEPT ![d].pool = r.pool]
               /\ vmem' = IF r.fresh
                          THEN (r.ptr :> [dev |-> ve.dev, data |-> "junk"]) @@ vmem
                          ELSE vmem
               /\ ve' = [ve EXCEPT !.ptrs = Append(@, r.ptr)]
               /\ pc' = AfterAlloc
               /\ err' = err
       ELSE /\ pc' \in {"exit"} \cup (IF veda_up THEN {AfterAlloc} ELSE {})
            /\ IF pc' = "exit"
               THEN /\ err' = "exit"
                    /\ UNCHANGED <<vmem, ve>>
               ELSE LET q == FreshPtr(vmem, ve.sizes[Len(ve.ptrs) + 1])
                    IN /\ vmem' = (q :> [dev |-> ve.dev, data |-> "junk"]) @@ vmem
                       /\ ve' = [ve EXCEPT !.ptrs = Append(@, q)]
                       /\ err' = err
            /\ UNCHANGED g_devices
    /\ UNCHANGED <<backend, hw_devices, g_initialized, veda_up, g_current_device,
                   py_loaded, py_g_initialized, streams, sched, veframe, P>>

\* one vedaMemcpyHtoDAsync of the call (ve/backend.cpp:250); VEDA refuses
\* it (VEDA_CHECK, exit) when vedaExit has run or the block is not allocated
ve_h2d ==
    /\ pc = "ve_h2d"
    /\ IF veda_up /\ ve.ptrs[ve.k + 1] \in DOMAIN vmem
       THEN /\ streams' = Enqueue(ve.stream,
                                  [kind |-> "h2d", dst |-> ve.ptrs[ve.k + 1],
                                   data |-> HostData(tid, ve.k + 1)])
            /\ ve' = [ve EXCEPT !.k = IF ve.k + 1 = ve.nin THEN 0 ELSE ve.k + 1]
            /\ pc' = AfterH2d
            /\ err' = err
       ELSE /\ pc' = "exit" /\ err' = "exit"
            /\ UNCHANGED <<streams, ve>>
    /\ UNCHANGED <<backend, hw_devices, g_initialized, veda_up, g_devices,
                   g_current_device, py_loaded, py_g_initialized, vmem, sched, veframe, P>>

\* vedaLaunchKernelEx (ve/backend.cpp:246-251).  The function handle is read
\* through `dev`: when `dev` dangles the behaviour is undefined (the process
\* dies, or the handle read from the freed object is taken by VEDA).
ve_launch ==
    /\ pc = "ve_launch"
    /\ pc' \in IF ~veda_up \/ \E x \in DOMAIN ve.ptrs : ve.ptrs[x] \notin DOMAIN vmem
               THEN {"exit"}
               ELSE IF LiveDev THEN {AfterLaunch} ELSE {"exit", AfterLaunch}
    /\ IF pc' = "exit"
       THEN /\ err' = "exit"
            /\ UNCHANGED streams
       ELSE /\ streams' = Enqueue(ve.stream,
                                  [kind |-> "kernel", f |-> op,
                                   ins |-> SubSeq(ve.ptrs, 1, ve.nin),
                                   outs |-> SubSeq(ve.ptrs, ve.nin + 1, Len(ve.ptrs))])
            /\ err' = err
    /\ UNCHANGED <<backend, hw_devices, g_initialized, veda_up, g_devices,
                   g_current_device, py_loaded, py_g_initialized, vmem, sched, veframe,
                   ve, P>>

\* one vedaMemcpyDtoHAsync of the call (ve/backend.cpp:252)
ve_d2h ==
    /\ pc = "ve_d2h"
    /\ IF veda_up /\ ve.ptrs[ve.nin + ve.k + 1] \in DOMAIN vmem
       THEN /\ streams' = Enqueue(ve.stream,
                                  [kind |-> "d2h", src |-> ve.ptrs[ve.nin + ve.k + 1],
                                   by |-> tid, slot |-> ve.k + 1])
            /\ ve' = [ve EXCEPT !.k = IF ve.nin + ve.k + 1 = Len(ve.ptrs)
                                      THEN 0 ELSE ve.k + 1]
            /\ pc' = AfterD2h
            /\ err' = err
       ELSE /\ pc' = "exit" /\ err' = "exit"
            /\ UNCHANGED <<streams, ve>>
    /\ UNCHANGED <<backend, hw_devices, g_initialized, veda_up, g_devices,
                   g_current_device, py_loaded, py_g_initialized, vmem, sched, veframe, P>>

\* a call that goes on to free its blocks without waiting for its stream
ve_sync_NoWait ==
    /\ pc = "ve_sync"
    /\ IF veda_up
       THEN /\ pc' = AfterSync
            /\ err' = IF ve.ptrs = <<>> THEN "ok" ELSE err
       ELSE pc' = "exit" /\ err' = "exit"
    /\ UNCHANGED <<lifecycle, sched, op, device, T1, T2, m, QT, QT2, ptr, mu1, mu2,
                   sigma_inv1, sigma_inv2, S1, S2, i, heap, scored, oob, stale, ve, P>>

\* vedaStreamSynchronize (ve/backend.cpp:254) returns once the stream has
\* executed everything queued on it; it fails (VEDA_CHECK, exit) when
\* vedaExit has run
ve_sync ==
    /\ pc = "ve_sync"
    /\ IF veda_up
       THEN /\ streams[ve.stream] = <<>>
            /\ pc' = AfterSync
            /\ err' = IF ve.ptrs = <<>> THEN "ok" ELSE err
       ELSE pc' = "exit" /\ err' = "exit"
    /\ UNCHANGED <<lifecycle, sched, op, device, T1, T2, m, QT, QT2, ptr, mu1, mu2,
                   sigma_inv1, sigma_inv2, S1, S2, i, heap, scored, oob, stale, ve, P>>

\* one dev.pool.free(...) of the call (ve/backend.cpp:256-257); after the
\* last the call returns.  What a block on the free list holds is no call's
\* data any more: like a new block, it holds "junk".  When `dev` dangles the
\* behaviour is undefined: the process dies, or the maps of the freed object
\* are written and nothing live changes.
ve_free ==
    /\ pc = "ve_free"
    /\ IF LiveDev
       THEN /\ LET d == ve.dev + 1
               IN g_devices' = [g_devices EXCEPT ![d].pool = free(@, ve.ptrs[ve.k + 1])]
            /\ vmem' = [vmem EXCEPT ![ve.ptrs[ve.k + 1]].data = "junk"]
            /\ ve' = [ve EXCEPT !.k = ve.k + 1]
            /\ pc' = AfterFree
            /\ err' = IF ve.k + 1 = Len(ve.ptrs) THEN "ok" ELSE err
       ELSE /\ pc' \in {"exit", AfterFree}
            /\ IF pc' = "exit"
               THEN err' = "exit" /\ UNCHANGED ve
               ELSE /\ ve' = [ve EXCEPT !.k = ve.k + 1]
                    /\ err' = IF ve.k + 1 = Len(ve.ptrs) THEN "ok" ELSE err
            /\ UNCHANGED <<g_devices, vmem>>
    /\ UNCHANGED <<backend, hw_devices, g_initialized, veda_up, g_current_device,
                   py_loaded, py_g_initialized, streams, sched,
                   op, device, T1, T2, m, QT, QT2, ptr, mu1, mu2,
                   sigma_inv1, sigma_inv2, S1, S2, i, heap, scored, oob, stale, P>>

\* The device executes the operation at the head of a stream: a copy to the
\* device, a kernel (its outputs are a function of what its input blocks
\* hold at that moment), or a copy back into the host buffer of the call
\* that queued it.
ve_device_step ==
    /\ pc # "exit"
    /\ \E s \in Streams :
        /\ streams[s] # <<>>
        /\ LET w == Head(streams[s])
           IN /\ streams' = [streams EXCEPT ![s] = Tail(@)]
              /\ IF w.kind = "h2d"
                 THEN /\ vmem' = [vmem EXCEPT ![w.dst].data = w.data]
                      /\ UNCHANGED <<P, parked>>
                 ELSE IF w.kind = "kernel"
                 THEN /\ vmem' = [q \in DOMAIN vmem |->
                                    IF \E o \in DOMAIN w.outs : w.outs[o] = q
                                    THEN [vmem[q] EXCEPT !.data =
                                            Result(w.f,
                                                   [b \in DOMAIN w.ins |-> vmem[w.ins[b]].data],
                                                   CHOOSE o \in DOMAIN w.outs : w.outs[o] = q)]
                                    ELSE vmem[q]]
                      /\ UNCHANGED <<P, parked>>
                 ELSE /\ IF w.by = tid
                         THEN /\ P' = [P EXCEPT ![w.slot] = vmem[w.src].data]
                              /\ UNCHANGED parked
                         ELSE /\ parked' = [parked EXCEPT !.P[w.slot] = vmem[w.src].data]
                              /\ UNCHANGED P
                      /\ UNCHANGED vmem
    /\ UNCHANGED <<backend, hw_devices, g_initialized, veda_up, g_devices,
                   g_current_device, py_loaded, py_g_initialized, tid,
                   pc, err, veframe, ve>>

\* ------------------------------------------------------------ facade (CPU)
\* a call that ends before its main loop, leaving `leaked` allocated
Aborts(o, e, A, B, mm, leaked) ==
    /\ pc' = "done" /\ op' = o /\ err' = e
    /\ T1' = A /\ T2' = B /\ m' = mm
    /\ heap' = leaked
    /\ UNCHANGED <<P, QT, QT2, ptr, mu1, mu2, sigma_inv1, sigma_inv2,
                   S1, S2, i, scored, oob, stale>>

\* initialize without the guard on g_initialized
cpu_initialize_NoGuard ==
    /\ backend = "cpu"
    /\ g_initialized' = TRUE
    /\ Ends("initialize", "ok")
    /\ UNCHANGED <<backend, hw_devices, veda_up, g_devices, g_current_device, vmem, streams>>

\* cpu/backend.cpp:16-23
cpu_initialize ==
    /\ backend = "cpu"
    /\ IF g_initialized
       THEN /\ Ends("initialize", "AlreadyInitialized")
            /\ UNCHANGED g_initialized
       ELSE /\ g_initialized' = TRUE
            /\ Ends("initialize", "ok")
    /\ UNCHANGED <<backend, hw_devices, veda_up, g_devices, g_current_device, vmem, streams>>

\* cpu/backend.cpp:25-30
cpu_finalize ==
    /\ backend = "cpu"
    /\ IF ~g_initialized
       THEN /\ Ends("finalize", "NotInitialized")
            /\ UNCHANGED g_initialized
       ELSE /\ g_initialized' = FALSE
            /\ Ends("finalize", "ok")
    /\ UNCHANGED <<backend, hw_devices, veda_up, g_devices, g_current_device, vmem, streams>>

\* VEDA_CHECK on a failed VEDA call: the message is printed and the process
\* exits (ve/backend.cpp:19-27)
Exits(o) ==
    /\ pc' = "exit" /\ op' = o /\ err' = "exit"
    /\ UNCHANGED <<kvars, vecall, sched>>

\* std::make_unique<DeviceContext>() (ve/backend.cpp:130): the contexts of
\* one initialize are new objects; they are named by a serial number that
\* no reference held by a call in flight carries
NewObj == CHOOSE b \in 0..2 : b \notin {ve.obj, parked.ve.obj} /\
                              \A c \in 0..(b - 1) : c \in {ve.obj, parked.ve.obj}

\* ve/backend.cpp:110-145.  vedaInit fails when VEDA is already initialized.
ve_initialize ==
    /\ backend = "ve"
    /\ IF g_devices # <<>>
       THEN /\ Ends("initialize", "AlreadyInitialized")
            /\ UNCHANGED <<veda_up, g_devices, g_current_device>>
       ELSE IF veda_up
       THEN /\ Exits("initialize")
            /\ UNCHANGED <<veda_up, g_devices, g_current_device>>
       ELSE IF hw_devices = 0
       THEN /\ veda_up' = TRUE
            /\ Ends("initialize", "NoDevice")
            /\ UNCHANGED <<g_devices, g_current_device>>
       ELSE /\ veda_up' = TRUE
            /\ g_devices' = [d \in 1..hw_devices |->
                                [ctx |-> d - 1, obj |-> NewObj, pool |-> EmptyPool]]
            /\ g_current_device' = 0
            /\ Ends("initialize", "ok")
    /\ UNCHANGED <<backend, hw_devices, g_initialized, vmem, streams>>

\* ve/backend.cpp:147-158.  vedaExit fails when VEDA is not initialized;
\* pool.clear() of every device and then vedaExit leave no block allocated
\* and no work queued.
ve_finalize ==
    /\ backend = "ve"
    /\ g_devices' = <<>>
    /\ g_current_device' = -1
    /\ IF veda_up
       THEN /\ veda_up' = FALSE
            /\ vmem' = <<>>
            /\ streams' = [s \in Streams |-> <<>>]
            /\ Ends("finalize", "ok")
       ELSE /\ Exits("finalize")
            /\ UNCHANGED <<veda_up, vmem, streams>>
    /\ UNCHANGED <<backend, hw_devices, g_initialized>>

\* quickmp::initialize of the linked backend
initialize ==
    /\ pc = "idle"
    /\ (cpu_initialize \/ ve_initialize)
    /\ UNCHANGED <<py_loaded, py_g_initialized>>

\* quickmp::finalize of the linked backend
finalize ==
    /\ pc = "idle"
    /\ (cpu_finalize \/ ve_finalize)
    /\ UNCHANGED <<py_loaded, py_g_initialized>>

\* cpu/backend.cpp:32-35 and ve/backend.cpp:160-162: the value returned
get_device_count == IF backend = "cpu" THEN 1 ELSE Len(g_devices)

\* cpu/backend.cpp:44-47 and ve/backend.cpp:172-174: the value returned
get_current_device == IF backend = "cpu" THEN 0 ELSE g_current_device

\* cpu/backend.cpp:37-42
cpu_use_device(d) ==
    /\ backend = "cpu"
    /\ err' = (IF d # 0 THEN "InvalidDevice" ELSE "ok")
    /\ UNCHANGED <<g_current_device, g_devices>>

\* use_device that selects the device before it checks the id
ve_use_device_AssignFirst(d) ==
    /\ backend = "ve"
    /\ g_current_device' = d
    /\ err' = (IF d < 0 \/ d >= Len(g_devices) THEN "InvalidDevice" ELSE "ok")
    /\ UNCHANGED g_devices

\* ve/backend.cpp:164-170
ve_use_device(d) ==
    /\ backend = "ve"
    /\ IF d < 0 \/ d >= Len(g_devices)
       THEN /\ err' = "InvalidDevice"
            /\ UNCHANGED g_current_device
       ELSE /\ g_current_device' = d
            /\ err' = "ok"
    /\ UNCHANGED g_devices

\* quickmp::use_device of the linked backend
use_device(d) ==
    /\ pc = "idle"
    /\ (cpu_use_device(d) \/ ve_use_device(d))
    /\ pc' = "done" /\ op' = "use_device" /\ device' = d
    /\ UNCHANGED <<backend, hw_devices, g_initialized, veda_up, py_loaded,
                   py_g_initialized, vmem, streams, kvars, ve, sched>>

\* cpu/backend.cpp:66-73 and the kernel up to its main loop.  The caller's
\* buffer P holds n - mm + 1 elements.
selfjoin(T, n, mm, normalize) ==
    /\ pc = "idle"
    /\ LET o == IF normalize THEN "selfjoin" ELSE "selfjoin_ed"
           scratch == IF normalize THEN SelfScratch ELSE SelfEdScratch
       IN IF n < mm
          THEN IF AllocFails(SubCount(n, mm))
               THEN Aborts(o, "bad_alloc", T, Empty, mm, {})
               ELSE Aborts(o, "ShapeMismatch", T, Empty, mm, scratch)
          ELSE \/ IF normalize THEN selfjoin_seed(T, n, mm)
                               ELSE selfjoin_ed_seed(T, n, mm)
               \/ /\ n - mm + 1 <= ExclZone(mm)
                  /\ Aborts(o, "crash", T, Empty, mm, scratch)
    /\ UNCHANGED <<lifecycle, vecall, sched>>

\* cpu/backend.cpp:75-83 and the kernel up to its main loop
abjoin(A, B, na, nb, mm, normalize) ==
    /\ pc = "idle"
    /\ LET o == IF normalize THEN "abjoin" ELSE "abjoin_ed"
           scratch == IF normalize THEN AbScratch ELSE AbEdScratch
           first == IF normalize THEN {"QT", "QT2", "mu1"} ELSE {"QT", "QT2", "S1"}
       IN IF na < mm \/ nb < mm
          THEN IF AllocFails(SubCount(na, mm))
               THEN Aborts(o, "bad_alloc", A, B, mm, {})
               ELSE IF AllocFails(SubCount(nb, mm))
               THEN Aborts(o, "bad_alloc", A, B, mm, first)
               ELSE Aborts(o, "ShapeMismatch", A, B, mm, scratch)
          ELSE IF normalize THEN abjoin_seed(A, B, na, nb, mm)
                            ELSE abjoin_ed_seed(A, B, na, nb, mm)
    /\ UNCHANGED <<lifecycle, vecall, sched>>

\* cpu/backend.cpp:54-58 with sliding_dot_product_fft, dot_product.cpp:7-36.
\* The result goes to the caller's buffer, held in P.
sliding_dot_product(T, Q, n, mq) ==
    /\ pc = "idle"
    /\ IF n >= mq
       THEN /\ P' = [j \in 0..(n - mq) |-> Fin(sliding_dot_product_fft(T, Q, n, mq)[j], 1)]
            /\ oob' = {}
            /\ err' = "ok"
       ELSE /\ P' = Empty
            /\ oob' = {<<"Qra", j>> : j \in (2 * n)..(mq - 1)}
            /\ err' \in (IF mq > 2 * n THEN {"ok", "crash"} ELSE {"ok"})
    /\ pc' = "done" /\ op' = "sliding_dot_product"
    /\ T1' = T /\ T2' = Q /\ m' = mq
    /\ UNCHANGED <<lifecycle, vecall, sched, QT, QT2, ptr, mu1, mu2, sigma_inv1, sigma_inv2,
                   S1, S2, i, heap, scored, stale>>

\* cpu/backend.cpp:60-64.  The caller's buffers mu and sigma are held in
\* mu1 (m * mu) and S1 (m^2 * sigma^2).
mean_std(T, n, mm) ==
    /\ pc = "idle"
    /\ IF n < mm
       THEN Aborts("compute_mean_std", "ShapeMismatch", T, Empty, mm, {})
       ELSE /\ mu1' = compute_mean_std(T, n, mm).mu
            /\ S1' = compute_mean_std(T, n, mm).sigma
            /\ T1' = T /\ m' = mm
            /\ pc' = "done" /\ op' = "compute_mean_std" /\ err' = "ok"
            /\ UNCHANGED <<T2, P, QT, QT2, ptr, mu2, sigma_inv1, sigma_inv2,
                           S2, i, heap, scored, oob, stale>>
    /\ UNCHANGED <<lifecycle, vecall, sched>>

\* cpu/backend.cpp:85-88
sleep_us ==
    /\ pc = "idle" /\ backend = "cpu"
    /\ Ends("sleep_us", "ok")
    /\ UNCHANGED <<lifecycle, vecall, sched>>

\* the call is over: the caller drops the buffers of the call
Return ==
    /\ pc = "done"
    /\ pc' = "idle" /\ op' = "none" /\ err' = "none"
    /\ T1' = Empty /\ T2' = Empty /\ m' = 0
    /\ P' = Empty /\ QT' = Empty /\ QT2' = Empty /\ ptr' = NoPtr
    /\ mu1' = Empty /\ mu2' = Empty /\ sigma_inv1' = Empty /\ sigma_inv2' = Empty
    /\ S1' = Empty /\ S2' = Empty
    /\ i' = 0 /\ heap' = {} /\ scored' = EmptyBag /\ oob' = {} /\ stale' = FALSE
    /\ device' = 0 /\ ve' = NoVe
    /\ UNCHANGED <<lifecycle, sched>>

\* ------------------------------------------------------------ callers
SelfN == 1..MaxN
SelfM == MinM..MaxN
AbN == 1..MaxNab
AbM == MinM..MaxNab

CallSelfjoin ==
    /\ pc = "idle" /\ backend = "cpu"
    /\ \E n \in SelfN, mm \in SelfM, normalize \in BOOLEAN :
        \E T \in Series(n) : selfjoin(T, n, mm, normalize)

CallAbjoin ==
    /\ pc = "idle" /\ backend = "cpu"
    /\ \E na \in AbN, nb \in AbN, mm \in AbM, normalize \in BOOLEAN :
        \E A \in Series(na), B \in Series(nb) : abjoin(A, B, na, nb, mm, normalize)

\* the ids a caller passes to use_device
DeviceIds == (-1)..MaxDev

CallUseDevice == pc = "idle" /\ \E d \in DeviceIds : use_device(d)

CallSlidingDotProduct ==
    /\ pc = "idle" /\ backend = "cpu"
    /\ \E n \in AbN, mq \in AbM :
        \E T \in Series(n), Q \in Series(mq) : sliding_dot_product(T, Q, n, mq)

CallMeanStd ==
    /\ pc = "idle" /\ backend = "cpu"
    /\ \E n \in AbN, mm \in AbM : \E T \in Series(n) : mean_std(T, n, mm)

\* the ramp T[j] = j of eight samples
RampT == [j \in 0..7 |-> j]

\* a caller that hands the ramp to selfjoin with a window of three samples
CallSelfjoinRamp ==
    /\ pc = "idle" /\ backend = "cpu"
    /\ \E normalize \in BOOLEAN :
          selfjoin(RampT, Cardinality(DOMAIN RampT), 3, normalize)

Next ==
    \/ initialize
    \/ finalize
    \/ CallSelfjoin
    \/ CallAbjoin
    \/ CallSlidingDotProduct
    \/ CallMeanStd
    \/ CallSelfjoinRamp
    \/ CallUseDevice
    \/ sleep_us
    \/ selfjoin_row
    \/ selfjoin_final
    \/ selfjoin_ed_row
    \/ selfjoin_ed_final
    \/ abjoin_row
    \/ abjoin_final
    \/ abjoin_ed_row
    \/ abjoin_ed_final
    \/ Return

Spec == Init /\ [][Next]_vars


\* ------------------------------------------------------------ the binding layer
\* The Python module is loaded and no call has been made.
InitBind ==
    /\ backend \in {"cpu", "ve"}
    /\ hw_devices \in (IF backend = "ve" THEN 0..MaxDev ELSE {0})
    /\ g_initialized = FALSE
    /\ veda_up = FALSE
    /\ g_devices = <<>>
    /\ g_current_device = -1
    /\ pc = "idle" /\ op = "none" /\ err = "none"
    /\ KernelIdle
    /\ device = 0 /\ ve = NoVe
    /\ py_loaded = TRUE /\ py_g_initialized = FALSE
    /\ vmem = <<>> /\ streams = [s \in Streams |-> <<>>]
    /\ parked = IdleFrame /\ tid = 1

\* bindings.cpp:22-30: the flag is set once quickmp::initialize has returned
py_initialize ==
    /\ pc = "idle" /\ py_loaded
    /\ IF py_g_initialized
       THEN /\ Ends("initialize", "AlreadyInitialized")
            /\ UNCHANGED lifecycle
       ELSE /\ (cpu_initialize \/ ve_initialize)
            /\ py_g_initialized' = (err' = "ok")
            /\ UNCHANGED py_loaded

\* the finalize binding that leaves its flag set
py_finalize_KeepsFlag ==
    /\ pc = "idle" /\ py_loaded
    /\ IF ~py_g_initialized
       THEN /\ Ends("finalize", "NotInitialized")
            /\ UNCHANGED lifecycle
       ELSE /\ (cpu_finalize \/ ve_finalize)
            /\ UNCHANGED <<py_loaded, py_g_initialized>>

\* bindings.cpp:40-48: the flag is cleared once quickmp::finalize has returned
py_finalize ==
    /\ pc = "idle" /\ py_loaded
    /\ IF ~py_g_initialized
       THEN /\ Ends("finalize", "NotInitialized")
            /\ UNCHANGED lifecycle
       ELSE /\ (cpu_finalize \/ ve_finalize)
            /\ py_g_initialized' = (IF err' = "ok" THEN FALSE ELSE py_g_initialized)
            /\ UNCHANGED py_loaded

\* bindings.cpp:261-268: the capsule destructor, run when the module is
\* unloaded.  It is noexcept: a finalize that throws ends the process, which
\* shows as err = "NotInitialized" of a module that is no longer loaded.
py_cleanup ==
    /\ pc = "idle" /\ py_loaded
    /\ py_loaded' = FALSE
    /\ IF py_g_initialized
       THEN /\ (cpu_finalize \/ ve_finalize)
            /\ py_g_initialized' = (IF err' = "ok" THEN FALSE ELSE py_g_initialized)
       ELSE /\ Ends("_cleanup", "ok")
            /\ UNCHANGED <<backend, hw_devices, g_initialized, veda_up, g_devices,
                           g_current_device, py_g_initialized, vmem, streams>>

\* the test every other binding begins with (bindings.cpp:56, 71, 87, 102,
\* 133, 164, 195, 228, 248): call is the backend call that follows it
py_checked(o, call) ==
    /\ pc = "idle" /\ py_loaded
    /\ IF ~py_g_initialized
       THEN /\ Ends(o, "NotInitialized")
            /\ UNCHANGED lifecycle
       ELSE call

\* std::vector<double> P(n - m + 1) of the kernel bindings (bindings.cpp:108,
\* 137, 168, 200): the constructor throws when the count exceeds max_size()
py_output(o, A, B, n, mm, call) ==
    IF n < mm /\ AllocFails(SubCount(n, mm))
    THEN /\ Aborts(o, "length_error", A, B, mm, {})
         /\ UNCHANGED <<lifecycle, vecall, sched>>
    ELSE call

\* bindings.cpp:68-75
py_use_device(d) == py_checked("use_device", use_device(d))

\* bindings.cpp:161-176
py_selfjoin(T, n, mm, normalize) ==
    LET o == IF normalize THEN "selfjoin" ELSE "selfjoin_ed"
    IN py_checked(o, py_output(o, T, Empty, n, mm, selfjoin(T, n, mm, normalize)))

\* bindings.cpp:192-208
py_abjoin(A, B, na, nb, mm, normalize) ==
    LET o == IF normalize THEN "abjoin" ELSE "abjoin_ed"
    IN py_checked(o, py_output(o, A, B, na, mm, abjoin(A, B, na, nb, mm, normalize)))

\* bindings.cpp:99-116
py_sliding_dot_product(T, Q, n, mq) ==
    py_checked("sliding_dot_product",
               py_output("sliding_dot_product", T, Q, n, mq, sliding_dot_product(T, Q, n, mq)))

\* bindings.cpp:130-147
py_compute_mean_std(T, n, mm) ==
    py_checked("compute_mean_std",
               py_output("compute_mean_std", T, Empty, n, mm, mean_std(T, n, mm)))

\* bindings.cpp:225-235
py_sleep_us == backend = "cpu" /\ py_checked("sleep_us", sleep_us)

PyCallUseDevice == pc = "idle" /\ \E d \in DeviceIds : py_use_device(d)

PyCallSelfjoin ==
    /\ pc = "idle" /\ backend = "cpu"
    /\ \E n \in SelfN, mm \in SelfM, normalize \in BOOLEAN :
        \E T \in Series(n) : py_selfjoin(T, n, mm, normalize)

PyCallAbjoin ==
    /\ pc = "idle" /\ backend = "cpu"
    /\ \E na \in AbN, nb \in AbN, mm \in AbM, normalize \in BOOLEAN :
        \E A \in Series(na), B \in Series(nb) : py_abjoin(A, B, na, nb, mm, normalize)

PyCallSlidingDotProduct ==
    /\ pc = "idle" /\ backend = "cpu"
    /\ \E n \in AbN, mq \in AbM :
        \E T \in Series(n), Q \in Series(mq) : py_sliding_dot_product(T, Q, n, mq)

PyCallMeanStd ==
    /\ pc = "idle" /\ backend = "cpu"
    /\ \E n \in AbN, mm \in AbM : \E T \in Series(n) : py_compute_mean_std(T, n, mm)

NextBind ==
    \/ py_initialize
    \/ py_finalize
    \/ py_cleanup
    \/ PyCallUseDevice
    \/ PyCallSelfjoin
    \/ PyCallAbjoin
    \/ PyCallSlidingDotProduct
    \/ PyCallMeanStd
    \/ py_sleep_us
    \/ selfjoin_row
    \/ selfjoin_final
    \/ selfjoin_ed_row
    \/ selfjoin_ed_final
    \/ abjoin_row
    \/ abjoin_final
    \/ abjoin_ed_row
    \/ abjoin_ed_final
    \/ Return

SpecBind == InitBind /\ [][NextBind]_vars


\* ------------------------------------------------------------ the naive dot product, loop by loop
\* the inputs sliding_dot_product_naive is run on: every series T of up to
\* MaxNab samples with every query Q of at most as many, and the pair
\* T = [1..6], Q = [1, 0, -1]
DotInputs ==
    {[T |-> T, Q |-> Q] :
        T \in UNION {Series(n) : n \in 1..MaxNab},
        Q \in UNION {Series(mq) : mq \in 1..MaxNab}}
    \cup {[T |-> [j \in 0..5 |-> j + 1], Q |-> [j \in 0..2 |-> 1 - j]]}

\* the trip count n - m + 1 of both loops over i, one too many
NaiveCount_OffByOne(n, mq) == (n - mq + 2) % SizeMod
\* the trip count n - m + 1 of both loops over i (dot_product.cpp:41,46)
NaiveCount(n, mq) == SubCount(n, mq)

\* The call sliding_dot_product_naive(T, Q, QT, n, m) is entered.  The
\* caller's buffer QT has one cell more than the n - m + 1 the function is
\* to fill; no cell has been written.
InitDot ==
    /\ backend = "cpu" /\ hw_devices = 0
    /\ g_initialized = FALSE /\ veda_up = FALSE
    /\ g_devices = <<>> /\ g_current_device = -1
    /\ op = "sliding_dot_product_naive" /\ err = "none" /\ pc = "naive_zero"
    /\ \E in \in {x \in DotInputs : Cardinality(DOMAIN x.T) >= Cardinality(DOMAIN x.Q)} :
          /\ T1 = in.T /\ T2 = in.Q /\ m = Cardinality(DOMAIN in.Q)
          /\ QT = Fresh(Cardinality(DOMAIN in.T) - Cardinality(DOMAIN in.Q) + 2)
    /\ P = Empty /\ QT2 = Empty /\ ptr = NoPtr
    /\ mu1 = Empty /\ mu2 = Empty /\ sigma_inv1 = Empty /\ sigma_inv2 = Empty
    /\ S1 = Empty /\ S2 = Empty
    /\ i = 0 /\ heap = {} /\ scored = EmptyBag /\ oob = {} /\ stale = FALSE
    /\ device = 0 /\ ve = NoVe
    /\ py_loaded = FALSE /\ py_g_initialized = FALSE
    /\ vmem = <<>> /\ streams = [s \in Streams |-> <<>>]
    /\ parked = IdleFrame /\ tid = 1

\* dot_product.cpp:41-43: QT[i] = 0.0 for i < n - m + 1
naive_zero ==
    /\ pc = "naive_zero"
    /\ LET cnt == NaiveCount(n1, m)
       IN /\ QT' = [k \in DOMAIN QT |-> IF k < cnt THEN Cell(0, 0) ELSE QT[k]]
          /\ oob' = oob \cup {<<"QT", k>> : k \in Cardinality(DOMAIN QT)..(cnt - 1)}
    /\ pc' = "naive_acc" /\ i' = 0
    /\ UNCHANGED <<lifecycle, vecall, sched, op, err, T1, T2, m, P, QT2, ptr, mu1, mu2,
                   sigma_inv1, sigma_inv2, S1, S2, heap, scored, stale>>

\* dot_product.cpp:45-49, one iteration j (held in i) of the outer loop:
\* QT[i] += Q[j] * T[i + j] for i < n - m + 1.  A cell counts the terms
\* added to it.
naive_acc ==
    /\ pc = "naive_acc" /\ i < m
    /\ LET cnt == NaiveCount(n1, m)
           rd == {k \in 0..(cnt - 1) : k + i \in DOMAIN T1 /\ k \in DOMAIN QT}
       IN /\ QT' = [k \in DOMAIN QT |->
                      IF k \in rd THEN Cell(QT[k].v + T2[i] * T1[k + i], QT[k].at + 1)
                      ELSE QT[k]]
          /\ oob' = oob \cup {<<"T", k + i>> : k \in {x \in 0..(cnt - 1) : x + i \notin DOMAIN T1}}
                        \cup {<<"QT", k>> : k \in {x \in 0..(cnt - 1) : x \notin DOMAIN QT}}
          /\ scored' = scored (+) SetToBag({<<k, i>> : k \in 0..(cnt - 1)})
    /\ i' = i + 1
    /\ UNCHANGED <<lifecycle, vecall, sched, pc, op, err, T1, T2, m, P, QT2, ptr, mu1, mu2,
                   sigma_inv1, sigma_inv2, S1, S2, heap, stale>>

\* dot_product.cpp:50: the function returns
naive_return ==
    /\ pc = "naive_acc" /\ i >= m
    /\ pc' = "done" /\ err' = "ok"
    /\ UNCHANGED <<lifecycle, vecall, sched, op, T1, T2, m, P, QT, QT2, ptr, mu1, mu2,
                   sigma_inv1, sigma_inv2, S1, S2, i, heap, scored, oob, stale>>

NextDot == naive_zero \/ naive_acc \/ naive_return

SpecDot == InitDot /\ [][NextDot]_vars

\* ------------------------------------------------------------ two threads
\* The running thread's call is held in the call variables, the other
\* thread's call in `parked`; the process-wide state belongs to neither.
Frame ==
    [pc |-> pc, op |-> op, err |-> err,
     T1 |-> T1, T2 |-> T2, m |-> m, P |-> P, QT |-> QT, QT2 |-> QT2,
     ptr |-> ptr, mu1 |-> mu1, mu2 |-> mu2,
     sigma_inv1 |-> sigma_inv1, sigma_inv2 |-> sigma_inv2, S1 |-> S1, S2 |-> S2,
     i |-> i, heap |-> heap, scored |-> scored, oob |-> oob, stale |-> stale,
     device |-> device, ve |-> ve]

\* the scheduler takes the processor from the running thread and gives it to
\* the other one (bindings.cpp:171: the calls run with the GIL released)
Switch ==
    /\ pc # "exit"
    /\ parked' = Frame
    /\ tid' = 3 - tid
    /\ pc' = parked.pc /\ op' = parked.op /\ err' = parked.err
    /\ T1' = parked.T1 /\ T2' = parked.T2 /\ m' = parked.m /\ P' = parked.P
    /\ QT' = parked.QT /\ QT2' = parked.QT2 /\ ptr' = parked.ptr
    /\ mu1' = parked.mu1 /\ mu2' = parked.mu2
    /\ sigma_inv1' = parked.sigma_inv1 /\ sigma_inv2' = parked.sigma_inv2
    /\ S1' = parked.S1 /\ S2' = parked.S2
    /\ i' = parked.i /\ heap' = parked.heap /\ scored' = parked.scored
    /\ oob' = parked.oob /\ stale' = parked.stale
    /\ device' = parked.device /\ ve' = parked.ve
    /\ UNCHANGED lifecycle

\* the series the concurrent callers hand in: the series of period two
ConcSeries(n) == {T \in Series(n) : \A j \in 2..(n - 1) : T[j] = T[j - 2]}

\* the lengths the concurrent callers hand in
ConcSelfN == MinM + 3
ConcAbN == MinM + 1

\* size_t byte count of c doubles
Bytes(c) == (c * SizeofDouble) % SizeMod

\* ve/backend.cpp:234-258
ve_selfjoin(n, mm, s, normalize) ==
    ve_call(IF normalize THEN "selfjoin" ELSE "selfjoin_ed",
            <<Bytes(n), Bytes(SubCount(n, mm))>>, 1, s)

\* ve/backend.cpp:260-290
ve_abjoin(na, nb, mm, s, normalize) ==
    ve_call(IF normalize THEN "abjoin" ELSE "abjoin_ed",
            <<Bytes(na), Bytes(nb), Bytes(SubCount(na, mm))>>, 2, s)

\* ve/backend.cpp:176-203
ve_sliding_dot_product(n, mq, s) ==
    ve_call("sliding_dot_product",
            <<Bytes(n), Bytes(mq), Bytes(SubCount(n, mq))>>, 2, s)

\* ve/backend.cpp:205-232
ve_compute_mean_std(n, mm, s) ==
    ve_call("compute_mean_std",
            <<Bytes(n), Bytes(SubCount(n, mm)), Bytes(SubCount(n, mm))>>, 1, s)

\* ve/backend.cpp:292-302
ve_sleep_us(s) == ve_call("sleep_us", <<>>, 0, s)

\* the streams the running thread picks from: the first thread keeps to
\* stream 0, the second shares it or takes another
ConcStreams == IF tid = 1 THEN {0} ELSE Streams

\* On the VE backend the callers run the z-normalised self-join of the long
\* series and the raw self-join of the short one: with a window of three
\* samples the first call's output
\* block and the second call's input block have the same size.
ConcSelfjoin ==
    \/ /\ backend = "cpu"
       /\ \E normalize \in BOOLEAN :
             \E T \in ConcSeries(ConcSelfN) : selfjoin(T, ConcSelfN, MinM, normalize)
    \/ \E s \in ConcStreams :
          \/ ve_selfjoin(ConcSelfN, MinM, s, TRUE)
          \/ ve_selfjoin(ConcAbN, MinM, s, FALSE)

ConcAbjoin ==
    /\ backend = "cpu"
    /\ \E normalize \in BOOLEAN :
          \E A \in ConcSeries(ConcAbN), B \in ConcSeries(ConcAbN) :
              abjoin(A, B, ConcAbN, ConcAbN, MinM, normalize)

ConcSlidingDotProduct ==
    /\ backend = "cpu"
    /\ \E T \in ConcSeries(ConcAbN), Q \in ConcSeries(MinM) :
          sliding_dot_product(T, Q, ConcAbN, MinM)

ConcMeanStd ==
    /\ backend = "cpu"
    /\ \E T \in ConcSeries(ConcAbN) : mean_std(T, ConcAbN, MinM)

NextConc ==
    \/ initialize
    \/ ConcSelfjoin
    \/ ConcAbjoin
    \/ ConcSlidingDotProduct
    \/ ConcMeanStd
    \/ selfjoin_row
    \/ selfjoin_final
    \/ selfjoin_ed_row
    \/ selfjoin_ed_final
    \/ abjoin_row
    \/ abjoin_final
    \/ abjoin_ed_row
    \/ abjoin_ed_final
    \/ ve_alloc
    \/ ve_h2d
    \/ ve_launch
    \/ ve_d2h
    \/ ve_sync
    \/ ve_free
    \/ ve_device_step
    \/ Return
    \/ Switch

SpecConc == Init /\ [][NextConc]_vars

\* ------------------------------------------------------------ teardown
\* the first thread calls the z-normalized self-join; the second thread
\* calls initialize, finalize and use_device
TearSelfjoin ==
    /\ tid = 1
    /\ \/ /\ backend = "cpu"
          /\ \E T \in ConcSeries(ConcSelfN) : selfjoin(T, ConcSelfN, MinM, TRUE)
       \/ \E s \in ConcStreams : ve_selfjoin(ConcSelfN, MinM, s, TRUE)

TearInitialize == tid = 2 /\ initialize
TearFinalize == tid = 2 /\ finalize
TearUseDevice == tid = 2 /\ CallUseDevice

NextTear ==
    \/ TearInitialize
    \/ TearFinalize
    \/ TearUseDevice
    \/ TearSelfjoin
    \/ selfjoin_row
    \/ selfjoin_final
    \/ ve_alloc
    \/ ve_h2d
    \/ ve_launch
    \/ ve_d2h
    \/ ve_sync
    \/ ve_free
    \/ ve_device_step
    \/ Return
    \/ Switch

SpecTear == Init /\ [][NextTear]_vars


\* ------------------------------------------------------------ reference
\* ceil(m / 4) as the exclusion zone is defined: the least e with 4e >= m
CeilQuarter(mm) == CHOOSE e \in 0..mm : 4 * e >= mm /\ 4 * (e - 1) < mm

\* sum_{k<m} (A[a+k] - B[b+k])^2, computed directly
RefSq(A, a, B, b, mm) ==
    SumTo([k \in 0..(mm - 1) |-> (A[a + k] - B[b + k]) * (A[a + k] - B[b + k])],
          0, mm - 1)

\* the partners of window a a self-join may use
Admissible(a, L, mm) == {j \in 0..(L - 1) : Abs(a - j) > CeilQuarter(mm)}

MinOf(S) == CHOOSE x \in S : \A y \in S : x <= y

\* the main loop of kernel o has ended and finalization has not begun
PreFinal(o) ==
    /\ pc = "row" /\ op = o
    /\ i >= (IF o \in {"selfjoin", "selfjoin_ed"} THEN L1 ELSE L2)

SelfOps == {"selfjoin", "selfjoin_ed"}
AbOps == {"abjoin", "abjoin_ed"}

\* ------------------------------------------------------------ claims
\* C1: raw self-join equals the direct reference: before the final square
\* root P[a] is the minimum over the admissible j of the squared distance
\* of windows a and j, and +infinity exactly when a has no admissible j.
C1_RawSelfJoinEqualsReference ==
    PreFinal("selfjoin_ed") =>
        \A a \in 0..(L1 - 1) :
            LET adm == Admissible(a, L1, m)
            IN IF adm = {}
               THEN P[a] = PInf
               ELSE P[a] = Fin(MinOf({RefSq(T1, a, T1, j, m) : j \in adm}), 1)

\* a finished raw self-join with an excluded window and a window at a
\* positive distance from its nearest admissible neighbour
C1_Witness ==
    /\ PreFinal("selfjoin_ed")
    /\ \E a, b \in 0..(L1 - 1) :
          /\ P[a] = PInf
          /\ P[b].k = "fin" /\ P[b].num > 0
          /\ b <= CeilQuarter(m)


\* m * sum of squares - (sum)^2 of window a of A: zero exactly when the
\* window is constant (sigma = 0)
RefVar(A, a, mm) ==
    LET s == SumTo([k \in 0..(mm - 1) |-> A[a + k]], 0, mm - 1)
        q == SumTo([k \in 0..(mm - 1) |-> A[a + k] * A[a + k]], 0, mm - 1)
    IN mm * q - s * s

\* rho(a, b) = (QT(a,b) - m mu_a mu_b) sigma_inv_a sigma_inv_b, computed
\* directly, with sigma_inv = 0 for a constant window (spec section 3)
RefRho(A, a, B, b, mm) ==
    LET sa == SumTo([k \in 0..(mm - 1) |-> A[a + k]], 0, mm - 1)
        sb == SumTo([k \in 0..(mm - 1) |-> B[b + k]], 0, mm - 1)
        q == SumTo([k \in 0..(mm - 1) |-> A[a + k] * B[b + k]], 0, mm - 1)
        va == RefVar(A, a, mm)
        vb == RefVar(B, b, mm)
    IN IF va = 0 \/ vb = 0 THEN Zero
       ELSE Norm(mm * (mm * q - sa * sb), va * vb)

MaxOfD(S) == CHOOSE x \in S : \A y \in S : ~FinLess(x, y)

\* no window of the series is constant
NonDegenerate(A, L, mm) == \A a \in 0..(L - 1) : RefVar(A, a, mm) > 0

\* C2: z-normalized self-join equals the reference double loop: before
\* finalization P[a] is the maximum of rho(a, j) over the admissible j, for
\* every a that has one, the indices a <= E included.  (Stated here for
\* series without constant windows, where rho needs no convention.)
C2_DiagonalEqualsReference ==
    (PreFinal("selfjoin") /\ NonDegenerate(T1, L1, m)) =>
        \A a \in 0..(L1 - 1) :
            LET adm == Admissible(a, L1, m)
            IN adm # {} =>
                 EqD(P[a], MaxOfD({RefRho(T1, a, T1, j, m) : j \in adm}))

\* what the kernel computes instead: the sentinel 0.0 of the exclusion zone
\* stays in the running maximum of the indices a <= E
C2_SentinelFloor ==
    (PreFinal("selfjoin") /\ NonDegenerate(T1, L1, m)) =>
        \A a \in 0..(L1 - 1) :
            LET adm == Admissible(a, L1, m)
                best == MaxOfD({RefRho(T1, a, T1, j, m) : j \in adm})
            IN adm # {} =>
                 IF a <= CeilQuarter(m)
                 THEN EqD(P[a], StdMax(Zero, best))
                 ELSE EqD(P[a], best)

\* C3: ab-join has no exclusion zone: before finalization P[j] is the best
\* score over every i in [0, L2), and every pair (i, j) of [0, L2) x [0, L1)
\* is scored exactly once.
C3_AbJoinAllPairs ==
    /\ PreFinal("abjoin_ed") =>
         /\ scored = SetToBag((0..(L2 - 1)) \X (0..(L1 - 1)))
         /\ \A j \in 0..(L1 - 1) :
               P[j] = Fin(MinOf({RefSq(T1, j, T2, b, m) : b \in 0..(L2 - 1)}), 1)
    /\ PreFinal("abjoin") =>
         /\ scored = SetToBag((0..(L2 - 1)) \X (0..(L1 - 1)))
         /\ \A j \in 0..(L1 - 1) :
               EqD(P[j], MaxOfD({RefRho(T1, j, T2, b, m) : b \in 0..(L2 - 1)}))

\* the part of C3 the kernels do satisfy: the raw ab-join on every input,
\* the z-normalized ab-join on series without constant windows
C3_AbJoinNonDegenerate ==
    /\ PreFinal("abjoin_ed") =>
         /\ scored = SetToBag((0..(L2 - 1)) \X (0..(L1 - 1)))
         /\ \A j \in 0..(L1 - 1) :
               P[j] = Fin(MinOf({RefSq(T1, j, T2, b, m) : b \in 0..(L2 - 1)}), 1)
    /\ (PreFinal("abjoin") /\ NonDegenerate(T1, L1, m) /\ NonDegenerate(T2, L2, m)) =>
         /\ scored = SetToBag((0..(L2 - 1)) \X (0..(L1 - 1)))
         /\ \A j \in 0..(L1 - 1) :
               EqD(P[j], MaxOfD({RefRho(T1, j, T2, b, m) : b \in 0..(L2 - 1)}))

\* C4: in selfjoin and selfjoin_ed no pair (a, b) with |a - b| <= ceil(m/4)
\* is folded into P, in the first row or in any iteration of the main loop.
C4_ExclusionZoneNeverScored ==
    op \in SelfOps =>
        \A pr \in BagToSet(scored) : Abs(pr[1] - pr[2]) > CeilQuarter(m)

\* a self-join whose main loop has folded pairs of the first row and of a
\* later row
C4_Witness ==
    /\ op \in SelfOps /\ pc = "row"
    /\ \E pr, qr \in BagToSet(scored) : pr[1] = 0 /\ qr[1] > 0

\* C5: for n = m + 1 a self-join in either mode fills exactly P[0] and P[1]
\* and both are finite.
C5_MinimalInputFinite ==
    (pc = "done" /\ op \in SelfOps /\ n1 = m + 1 /\ err = "ok") =>
        /\ oob = {}
        /\ DOMAIN P = {0, 1}
        /\ \A j \in DOMAIN P : IsFinite(P[j])

\* C6: a window with sigma = 0 has correlation 0 with every window and the
\* z-normalized joins return sqrt(2m) for it; no element of P is NaN or
\* infinite.
C6_DegenerateWindowDefined ==
    (pc = "done" /\ op \in {"selfjoin", "abjoin"} /\ err = "ok") =>
        \A j \in DOMAIN P :
            /\ IsFinite(P[j])
            /\ RefVar(T1, j, m) = 0 => (P[j].k = "zdist" /\ P[j].num = 0)

\* C7: selfjoin returns n - m + 1 elements, each >= 0 and not NaN.
C7_ProfileNonNegative ==
    (pc = "done" /\ op \in SelfOps /\ err = "ok") =>
        /\ DOMAIN P = 0..(n1 - m)
        /\ \A j \in DOMAIN P : P[j].k \in {"zdist", "sqrt", "pinf"}

KernelEntries ==
    {"selfjoin", "selfjoin_ed", "abjoin", "abjoin_ed", "sliding_dot_product",
     "compute_mean_std"}

\* C8: a kernel entry point called with n < m (n1 < m or n2 < m) fails with
\* ShapeMismatch before any buffer is allocated or written.
C8_ShapeMismatchRejected ==
    (/\ pc = "done" /\ op \in KernelEntries
     /\ (n1 < m \/ (op \in AbOps /\ n2 < m))) =>
        /\ err = "ShapeMismatch"
        /\ heap = {}
        /\ oob = {}

\* the backend is up
Up == IF backend = "cpu" THEN g_initialized ELSE g_devices # <<>>

\* C9: a kernel entry point of the facade called while the backend is not
\* up fails with NotInitialized and writes no output.  (Stated for calls
\* whose shapes are valid, n >= m.)
C9_KernelsNeedInitialize ==
    (/\ pc \in {"row", "done"} /\ op \in KernelEntries \cup {"sleep_us"} /\ ~Up
     /\ n1 >= m /\ (op \in AbOps => n2 >= m)) =>
        /\ err = "NotInitialized"
        /\ P = Empty

C11_FinalizeNeedsInitialize ==
    [][(pc = "idle" /\ op' = "finalize" /\ ~Up) =>
           (err' = "NotInitialized" /\ UNCHANGED lifecycle)]_vars


\* the kernel calls
KernelOps ==
    {"selfjoin", "selfjoin_ed", "abjoin", "abjoin_ed", "sliding_dot_product",
     "compute_mean_std"}

\* the call held in frame f has begun and has not returned
InKernel(f) == f.op \in KernelOps /\ f.pc \notin {"idle", "done", "exit"}

\* the step is a step of a kernel call of the running thread
KernelStep == tid' = tid /\ pc # "done" /\ op' \in KernelOps

FL1(f) == Cardinality(DOMAIN f.T1) - f.m + 1
FL2(f) == Cardinality(DOMAIN f.T2) - f.m + 1

\* the main loop of kernel o in frame f has ended
RowsDone(f, o) ==
    /\ f.pc = "row" /\ f.op = o
    /\ f.i >= (IF o \in SelfOps THEN FL1(f) ELSE FL2(f))

\* The call of thread t held in frame f has the output the same call has
\* when it runs alone: the profiles at the end of the main loop (the raw
\* ones on every input, the z-normalized ones on series without constant
\* windows), the dot products and statistics at the return, and on the VE
\* backend the kernel's outputs for the inputs this call handed in.
AsAlone(f, t) ==
    /\ RowsDone(f, "selfjoin_ed") =>
          \A a \in 0..(FL1(f) - 1) :
              LET adm == Admissible(a, FL1(f), f.m)
              IN IF adm = {}
                 THEN f.P[a] = PInf
                 ELSE f.P[a] = Fin(MinOf({RefSq(f.T1, a, f.T1, j, f.m) : j \in adm}), 1)
    /\ (RowsDone(f, "selfjoin") /\ NonDegenerate(f.T1, FL1(f), f.m)) =>
          \A a \in 0..(FL1(f) - 1) :
              LET adm == Admissible(a, FL1(f), f.m)
                  best == MaxOfD({RefRho(f.T1, a, f.T1, j, f.m) : j \in adm})
              IN adm # {} =>
                   IF a <= CeilQuarter(f.m)
                   THEN EqD(f.P[a], StdMax(Zero, best))
                   ELSE EqD(f.P[a], best)
    /\ RowsDone(f, "abjoin_ed") =>
          \A j \in 0..(FL1(f) - 1) :
              f.P[j] = Fin(MinOf({RefSq(f.T1, j, f.T2, b, f.m) : b \in 0..(FL2(f) - 1)}), 1)
    /\ (/\ RowsDone(f, "abjoin")
        /\ NonDegenerate(f.T1, FL1(f), f.m) /\ NonDegenerate(f.T2, FL2(f), f.m)) =>
          \A j \in 0..(FL1(f) - 1) :
              EqD(f.P[j], MaxOfD({RefRho(f.T1, j, f.T2, b, f.m) : b \in 0..(FL2(f) - 1)}))
    /\ (backend = "cpu" /\ f.pc = "done" /\ f.err = "ok") =>
          /\ f.op = "sliding_dot_product" =>
                \A j \in DOMAIN f.P : f.P[j] = Fin(Dot(f.T2, 0, f.T1, j, f.m), 1)
          /\ f.op = "compute_mean_std" =>
                /\ f.mu1 = compute_mean_std(f.T1, Cardinality(DOMAIN f.T1), f.m).mu
                /\ f.S1 = compute_mean_std(f.T1, Cardinality(DOMAIN f.T1), f.m).sigma
    /\ (backend = "ve" /\ f.pc = "done" /\ f.err = "ok" /\ f.op \in KernelOps) =>
          f.P = [o \in 1..(Len(f.ve.sizes) - f.ve.nin) |->
                    Result(f.op, [b \in 1..f.ve.nin |-> HostData(t, b)], o)]

\* C12: kernel calls may run concurrently without synchronization: under
\* every interleaving each call produces the output it produces alone, and
\* no step of a kernel call writes process-wide state while another kernel
\* call, which writes the same state, is running.
C12_ConcurrentCallsShareNothing ==
    /\ [](AsAlone(Frame, tid) /\ AsAlone(parked, 3 - tid))
    /\ [][(KernelStep /\ InKernel(parked)) =>
             UNCHANGED <<g_initialized, veda_up, g_devices, g_current_device>>]_vars

\* what holds instead: each call produces the output it produces alone; a
\* step of a kernel call never touches the other thread's call (but for the
\* device's copy into that call's output buffer) nor the lifecycle state;
\* on the CPU backend it writes no process-wide state at all; on the VE
\* backend it writes, of the device table, only the memory pool of the
\* device the call started on, and only in its alloc and free steps.
C12_ConcurrentCallsSharePoolOnly ==
    /\ [](AsAlone(Frame, tid) /\ AsAlone(parked, 3 - tid))
    /\ [][KernelStep =>
             /\ UNCHANGED <<backend, hw_devices, g_initialized, veda_up,
                            g_current_device, py_loaded, py_g_initialized>>
             /\ [parked' EXCEPT !.P = parked.P] = parked
             /\ backend = "cpu" => UNCHANGED <<g_devices, vmem, streams, parked>>
             /\ backend = "ve" =>
                   /\ DOMAIN g_devices' = DOMAIN g_devices
                   /\ \A d \in DOMAIN g_devices :
                         /\ g_devices'[d].ctx = g_devices[d].ctx
                         /\ g_devices'[d] # g_devices[d] =>
                               /\ d = ve'.dev + 1
                               /\ pc \in {"ve_alloc", "ve_free"}]_vars

\* on the VE backend a call has returned with its output while the other
\* thread's call, queued on the same stream, holds all its device blocks,
\* one of them a block the returned call used and gave back to the pool
C12_Witness ==
    /\ backend = "ve" /\ pc = "done" /\ err = "ok" /\ op \in KernelOps
    /\ InKernel(parked) /\ Len(parked.ve.ptrs) = Len(parked.ve.sizes)
    /\ parked.ve.stream = ve.stream
    /\ \E p \in DOMAIN vmem :
          /\ \E x \in DOMAIN parked.ve.ptrs : parked.ve.ptrs[x] = p
          /\ \E x \in DOMAIN ve.ptrs : ve.ptrs[x] = p

\* on the CPU backend a self-join has returned while the other thread is in
\* the main loop of an ab-join
C12_WitnessCpu ==
    /\ backend = "cpu" /\ pc = "done" /\ err = "ok" /\ op = "selfjoin"
    /\ parked.pc = "row" /\ parked.op = "abjoin_ed" /\ parked.i >= 1

\* C13: golden raw self-join: for T = [0, 1, ..., 7] and m = 3 the squared
\* distance held in P[0] before the final square root is 27, and the call
\* returns P[0] = sqrt(27).
C13_GoldenRawSelfJoin ==
    /\ (PreFinal("selfjoin_ed") /\ T1 = RampT /\ m = 3) => P[0] = Fin(27, 1)
    /\ (pc = "done" /\ op = "selfjoin_ed" /\ err = "ok" /\ T1 = RampT /\ m = 3) =>
          P[0] = Sqrt(Fin(27, 1))

\* C13 as amended: P[0] is the squared distance 12 of the windows (0,1,2)
\* and (2,3,4), the nearest window outside the exclusion zone |a - b| <= 1
C13_GoldenRawSelfJoinNearest ==
    /\ (PreFinal("selfjoin_ed") /\ T1 = RampT /\ m = 3) =>
          /\ P[0] = Fin(12, 1)
          /\ P[0] = Fin(RefSq(RampT, 0, RampT, 2, 3), 1)
    /\ (pc = "done" /\ op = "selfjoin_ed" /\ err = "ok" /\ T1 = RampT /\ m = 3) =>
          P[0] = Sqrt(Fin(12, 1))

\* the raw self-join of the ramp has returned
C13_Witness ==
    /\ pc = "done" /\ op = "selfjoin_ed" /\ err = "ok"
    /\ T1 = RampT /\ m = 3 /\ DOMAIN P = 0..5


\* C14: sliding_dot_product_naive writes exactly the cells QT[0 .. n-m],
\* QT[i] being the sum over k < m of Q[k] * T[i+k]; it reads only T[0 .. n-1]
\* and Q[0 .. m-1], each product once, and leaves T and Q as they were; for
\* n = m it writes QT[0] alone, and T = [1..6], Q = [1, 0, -1] gives
\* [-2, -2, -2, -2].
C14_NaiveDotProduct ==
    /\ (op = "sliding_dot_product_naive" /\ pc = "done") =>
          /\ \A k \in 0..(n1 - m) :
                /\ QT[k].v = SumTo([x \in 0..(m - 1) |-> T2[x] * T1[k + x]], 0, m - 1)
                /\ QT[k].at = m
          /\ QT[n1 - m + 1] = Cell(0, -1)
          /\ oob = {}
          /\ scored = SetToBag((0..(n1 - m)) \X (0..(m - 1)))
          /\ [k \in 0..(n1 - m) |-> QT[k].v] = sliding_dot_product_naive(T1, T2, 0, n1, m)
          /\ n1 = m => \A k \in DOMAIN QT : (QT[k].at >= 0) <=> (k = 0)
          /\ (T1 = [j \in 0..5 |-> j + 1] /\ T2 = [j \in 0..2 |-> 1 - j]) =>
                [k \in 0..3 |-> QT[k].v] = [k \in 0..3 |-> -2]
    /\ op = "sliding_dot_product_naive" =>
          /\ \A pr \in BagToSet(scored) : pr[1] + pr[2] <= n1 - 1 /\ pr[2] <= m - 1
          /\ [T |-> T1, Q |-> T2] \in DotInputs

\* the naive dot product of T = [1..6] and Q = [1, 0, -1] has returned
C14_Witness ==
    /\ op = "sliding_dot_product_naive" /\ pc = "done"
    /\ T1 = [j \in 0..5 |-> j + 1] /\ T2 = [j \in 0..2 |-> 1 - j]
    /\ QT[3].v = -2

\* a naive dot product with n = m has returned
C14_WitnessSingle ==
    /\ op = "sliding_dot_product_naive" /\ pc = "done"
    /\ n1 = m /\ m >= 3 /\ QT[0].at = m


\* C15: on the CPU backend use_device(id) succeeds for id = 0 alone and fails
\* with InvalidDevice for every other id, and after every call
\* get_current_device() is 0 and get_device_count() is 1; on the VE backend
\* a use_device with an id out of range fails and leaves the selected device
\* as it was.
C15_DeviceSelection ==
    [][/\ (pc = "idle" /\ op' = "use_device" /\ backend = "cpu") =>
             /\ (err' = "ok") <=> (device' = 0)
             /\ device' # 0 => err' = "InvalidDevice"
       /\ backend = "cpu" => (get_current_device' = 0 /\ get_device_count' = 1)
       /\ (/\ pc = "idle" /\ op' = "use_device" /\ backend = "ve"
           /\ (device' < 0 \/ device' >= Len(g_devices))) =>
             /\ err' = "InvalidDevice"
             /\ g_current_device' = g_current_device
             /\ get_device_count' = get_device_count]_vars

\* on a VE backend whose device 1 is selected a use_device has just failed
C15_Witness ==
    /\ backend = "ve" /\ pc = "done" /\ op = "use_device" /\ err = "InvalidDevice"
    /\ g_current_device = 1

\* on the CPU backend a use_device of a device other than 0 has just failed
C15_WitnessCpu ==
    /\ backend = "cpu" /\ pc = "done" /\ op = "use_device" /\ err = "InvalidDevice"
    /\ device = 1


\* the series the rows of the running kernel range over
RowSeries == IF op \in SelfOps THEN T1 ELSE T2

\* the first column iteration r of the running kernel computes
FirstCol(r) == IF op \in SelfOps /\ r >= 1 THEN r + CeilQuarter(m) + 1 ELSE 0

C17_RunningExtremum ==
    [][(pc = "row" /\ pc' = "row" /\ i' = i + 1) =>
          /\ DOMAIN P' = DOMAIN P
          /\ op \in {"selfjoin", "abjoin"} =>
                \A j \in DOMAIN P : P'[j] = P[j] \/ Less(P[j], P'[j])
          /\ op \in {"selfjoin_ed", "abjoin_ed"} =>
                \A j \in DOMAIN P : P'[j] = P[j] \/ Less(P'[j], P[j])]_vars

\* a raw self-join whose column accumulator has lowered P[1] from +infinity
\* and whose row update has lowered a later entry below its first-row value
C17_Witness ==
    /\ pc = "row" /\ op = "selfjoin_ed" /\ i >= 2
    /\ P[1].k = "fin"
    /\ \E j \in 3..(L1 - 1) :
          FinLess(P[j], Fin(RefSq(T1, 0, T1, j, m), 1))

\* a z-normalized self-join whose column accumulator has raised P[1] above
\* the 0.0 it was initialized to
C17_WitnessMax ==
    /\ pc = "row" /\ op = "selfjoin" /\ i >= 2
    /\ P[1].k = "fin" /\ P[1].num > 0


\* the scratch buffers kernel o allocates
ScratchOf(o) ==
    IF o = "selfjoin" THEN SelfScratch
    ELSE IF o = "selfjoin_ed" THEN SelfEdScratch
    ELSE IF o = "abjoin" THEN AbScratch
    ELSE AbEdScratch

\* C18: the scratch buffers do not outlive the call: while a kernel runs its
\* scratch buffers are allocated and the pointers QT and QT2 hold the two
\* row allocations, whichever way the swaps have left them; when the kernel
\* returns every scratch buffer has been released, once, and none is left.
C18_ScratchReleasedOnce ==
    /\ (pc = "row" /\ op \in SelfOps \cup AbOps) =>
          /\ heap = ScratchOf(op)
          /\ {ptr.QT, ptr.QT2} = {"QT", "QT2"}
          /\ (ptr.QT = "QT") <=> (i % 2 = 1)
    /\ (pc = "done" /\ op \in SelfOps \cup AbOps /\ err = "ok") =>
          /\ heap = {}
          /\ \A x \in oob : x[1] # "delete[]"

\* a self-join that has swapped the rows once has returned
C18_Witness ==
    /\ pc = "done" /\ op \in SelfOps /\ err = "ok"
    /\ i = 2 /\ ptr.QT = "QT2" /\ heap = {}

\* an ab-join with a single row (no swap) has returned
C18_WitnessNoSwap ==
    /\ pc = "done" /\ op \in AbOps /\ err = "ok"
    /\ i = 1 /\ ptr.QT = "QT" /\ heap = {}


\* C19: for n >= m + 1 and m >= 3, selfjoin and selfjoin_ed read and write
\* P, QT, QT2 and the statistics arrays at indices of [0, n - m] only; the
\* loop that initializes the exclusion zone writes no P[j] with j >= L.
C19_SelfJoinMemorySafe ==
    (op \in SelfOps /\ pc \in {"row", "done"} /\ n1 >= m + 1 /\ m >= 3) =>
        /\ oob = {}
        /\ err # "crash"


\* C20: through the bindings the two flags stay in step on the CPU backend:
\* after every binding call, one that raises included, the binding's
\* g_initialized equals the backend's; an AlreadyInitialized / NotInitialized
\* error is raised by the binding's own test, never by the backend's; and
\* the cleanup hook calls the backend's finalize exactly when the backend is
\* initialized, and leaves it uninitialized.
C20_FlagsInStep ==
    [][backend = "cpu" =>
          /\ py_g_initialized' = g_initialized'
          /\ (pc = "idle" /\ op' = "initialize" /\ err' = "AlreadyInitialized") =>
                py_g_initialized
          /\ (pc = "idle" /\ op' = "finalize" /\ err' = "NotInitialized") =>
                (~py_g_initialized /\ py_loaded')
          /\ (py_loaded /\ ~py_loaded') =>
                /\ (op' = "finalize") <=> g_initialized
                /\ err' = "ok"
                /\ ~g_initialized']_vars

\* the cleanup hook has finalized a CPU backend that was initialized
C20_Witness ==
    /\ backend = "cpu" /\ ~py_loaded /\ pc = "done" /\ op = "finalize" /\ err = "ok"
    /\ ~g_initialized /\ ~py_g_initialized

\* a binding call has raised and both flags are still set
C20_WitnessRaise ==
    /\ backend = "cpu" /\ py_loaded /\ pc = "done" /\ op = "initialize"
    /\ err = "AlreadyInitialized" /\ g_initialized /\ py_g_initialized

\* the device blocks the call in frame f has been handed and has not freed
Held(f) ==
    IF f.pc \in {"ve_alloc", "ve_h2d", "ve_launch", "ve_d2h", "ve_sync"}
    THEN {f.ve.ptrs[x] : x \in DOMAIN f.ve.ptrs}
    ELSE IF f.pc = "ve_free"
    THEN {f.ve.ptrs[x] : x \in (f.ve.k + 1)..Len(f.ve.ptrs)}
    ELSE {}

\* how many blocks the call in frame f holds, counted with repetition
HeldCount(f) ==
    IF f.pc \in {"ve_alloc", "ve_h2d", "ve_launch", "ve_d2h", "ve_sync"}
    THEN Len(f.ve.ptrs)
    ELSE IF f.pc = "ve_free" THEN Len(f.ve.ptrs) - f.ve.k ELSE 0

\* the free list of size s of device d (1-based index into g_devices)
FreeOf(d, s) == g_devices[d].pool.free_blocks_[s]

\* the blocks on the free lists of the pools
OnFreeList ==
    UNION {UNION {{FreeOf(d, s)[x] : x \in DOMAIN FreeOf(d, s)} :
                     s \in DOMAIN g_devices[d].pool.free_blocks_} :
             d \in DOMAIN g_devices}

\* the operation w queued on a stream reads or writes block p
Touches(w, p) ==
    IF w.kind = "h2d" THEN w.dst = p
    ELSE IF w.kind = "d2h" THEN w.src = p
    ELSE \/ \E x \in DOMAIN w.ins : w.ins[x] = p
         \/ \E x \in DOMAIN w.outs : w.outs[x] = p

\* some stream still has work queued that reads or writes block p
Queued(p) ==
    \E s \in Streams : \E x \in DOMAIN streams[s] : Touches(streams[s][x], p)

\* C21: VE MemoryPool exclusivity: under every interleaving of concurrent
\* kernel calls a device pointer is held by at most one caller at a time and
\* is not on a free list while held; every pointer on the free list keyed by
\* size s was allocated with size s; and a call gives a block back to the
\* pool only when the stream has no work left that uses the block.
C21_PoolExclusive ==
    /\ [](/\ Held(Frame) \cap Held(parked) = {}
          /\ Cardinality(Held(Frame)) = HeldCount(Frame)
          /\ Cardinality(Held(parked)) = HeldCount(parked)
          /\ (Held(Frame) \cup Held(parked)) \cap OnFreeList = {}
          /\ \A d \in DOMAIN g_devices :
                \A s \in DOMAIN g_devices[d].pool.free_blocks_ :
                    /\ \A x \in DOMAIN FreeOf(d, s) :
                          /\ FreeOf(d, s)[x][1] = s
                          /\ FreeOf(d, s)[x] \in DOMAIN g_devices[d].pool.allocated_sizes_
                          /\ g_devices[d].pool.allocated_sizes_[FreeOf(d, s)[x]] = s
                    /\ \A x, y \in DOMAIN FreeOf(d, s) :
                          x # y => FreeOf(d, s)[x] # FreeOf(d, s)[y])
    /\ [][\A p \in DOMAIN vmem :
             (p \in Held(Frame) /\ p \notin Held(Frame')) /\ tid' = tid => ~Queued(p)]_vars

\* both threads hold blocks of the same size at once, the running thread
\* has all its blocks, and blocks of earlier calls wait on the free lists
C21_Witness ==
    /\ backend = "ve" /\ pc = "ve_sync"
    /\ \E p \in Held(Frame), q \in Held(parked) : p # q /\ p[1] = q[1]
    /\ OnFreeList # {}

\* a call has given back its first block, with the stream it used drained,
\* while the other thread's call has work queued on that same stream
C21_WitnessFreed ==
    /\ backend = "ve" /\ pc = "ve_free" /\ ve.k >= 1
    /\ parked.pc = "ve_sync" /\ parked.ve.stream = ve.stream
    /\ streams[ve.stream] # <<>>

\* the step is one in which the running call goes through its reference
\* `dev`: a pool.alloc, the read of the kernel's function handle, a pool.free
DevStep ==
    /\ tid' = tid
    /\ pc \in {"ve_alloc", "ve_launch", "ve_free"}
    /\ (pc' # pc \/ ve' # ve \/ err' # err)

\* C22: no use after teardown: under every interleaving of a kernel call on
\* one thread and finalize or use_device on another, every step in which the
\* call uses its device context or that context's pool finds the context it
\* started on still in the device table, and the step changes no pool but
\* that one.
C22_NoUseAfterTeardown ==
    [][DevStep =>
          /\ LiveDev
          /\ \A d \in DOMAIN g_devices :
                g_devices'[d] # g_devices[d] => d = ve.dev + 1]_vars

\* the part of C22 the code does satisfy: the call is bound to one context
\* when it starts, so whatever use_device and finalize do meanwhile, an alloc
\* or free of the call changes no pool other than that context's
C22_SingleDevicePool ==
    [][DevStep =>
          /\ DOMAIN g_devices' = DOMAIN g_devices
          /\ \A d \in DOMAIN g_devices :
                g_devices'[d] # g_devices[d] =>
                    d = ve.dev + 1 /\ g_devices[d].obj = ve.obj]_vars

\* the call is about to allocate from the pool of the device it started on
\* while the other thread has selected another device
C22_WitnessOtherDevice ==
    /\ backend = "ve" /\ tid = 1 /\ pc = "ve_alloc" /\ LiveDev
    /\ g_current_device # ve.dev /\ g_current_device >= 0

\* the call is about to free its blocks and the context it started on is
\* gone: finalize has run on the other thread, and initialize after it
C22_WitnessDangling ==
    /\ backend = "ve" /\ tid = 1 /\ pc = "ve_free" /\ ~LiveDev
    /\ g_devices # <<>>

=============================================================================
